---- MODULE Spec2Model ----
(***************************************************************************)
(* Raindrop Sync: reconciliation of a remote bookmark store with a local   *)
(* tree of bookmark documents (src/main.ts, class RaindropSyncPlugin).     *)
(*                                                                         *)
(* Texts (titles, annotations, file names) are sequences of one-character  *)
(* strings, so that sanitising, trimming, escaping and the replacement     *)
(* patterns of String.replace are computed as the code computes them.      *)
(* A path under the resource folder is [dir, name]: dir is the sequence of *)
(* folder names below the resource folder, name the file name without the  *)
(* ".md" extension.                                                        *)
(***************************************************************************)
EXTENDS Integers, Sequences, FiniteSets, TLC

VARIABLES
  settings,      \* RaindropSyncSettings (fixed during a behaviour)
  now,           \* the wall clock, in milliseconds
  remote,        \* the remote store: id -> record
  folders,       \* the folders that exist at or below the resource folder
  files,         \* the documents of the vault: path -> [c, mtime]
  pc,            \* the position of syncBookmarks
  collections,   \* syncBookmarks: the collections map of this pass
  bookmarks,     \* syncBookmarks: the records fetched in this pass
  idx,           \* syncBookmarks: processedCount
  counts,        \* syncBookmarks: created/updated/skipped/failed counters
  syncedBack,    \* syncBookmarks: syncedBackCount
  lastSyncTime,  \* the plugin's lastSyncTime (-1 is null)
  passes,        \* number of passes started
  envOps,        \* number of changes the user and the remote service may still make
  lastOp,        \* what the last step did (observation only)
  before,        \* the documents at the start of the pass (observation only)
  log,           \* what the steps of this pass did (observation only)
  writeLag,      \* milliseconds between new Date() and the end of a write (fixed)
  faults,        \* number of operations that may still throw
  fetch,         \* the loop state of fetchAllBookmarks, page by page
  running,       \* number of calls of syncBookmarks that have not returned
  walk,          \* the loop state of getCollectionPath
  codec          \* generateNoteContent and the readers of the metadata block, on one record

vars == <<settings, now, remote, folders, files, pc, collections, bookmarks, idx,
          counts, syncedBack, lastSyncTime, passes, envOps, lastOp, before, log, writeLag,
          faults, fetch, running, walk, codec>>

----------------------------------------------------------------------------
(* Bounds of the model *)

\* passes of syncBookmarks in a behaviour
MaxPasses == 2
\* changes made by the user and the service in a behaviour
MaxEnvOps == 1
\* operations that throw in a behaviour
MaxFaults == 0
\* requests of one fetchAllBookmarks
MaxPages == 4
\* calls of syncBookmarks in flight at once
MaxRunning == 2
\* iterations of the loop of getCollectionPath
MaxWalk == 4

(* Program constants *)

perPage == 50
maxAttempts == 1000
MaxNameLen == 200
DefaultTestModeLimit == 5

\* a document without a last_synced line
NoTime == -1
\* new Date(text) of a text that is no timestamp: Invalid Date
InvalidTime == -2
\* totalCountFromAPI = null, data.count undefined
NoCount == -1

Ids == {1, 2}

----------------------------------------------------------------------------
(* Texts *)

Whitespace == {" ", "\n", "\t"}

RECURSIVE TrimLeft(_)
TrimLeft(s) ==
  IF s # <<>> /\ s[1] \in Whitespace THEN TrimLeft(Tail(s)) ELSE s

RECURSIVE TrimRight(_)
TrimRight(s) ==
  IF s # <<>> /\ s[Len(s)] \in Whitespace
    THEN TrimRight(SubSeq(s, 1, Len(s) - 1))
    ELSE s

\* String.prototype.trim
Trim(s) == TrimRight(TrimLeft(s))

\* replace(/\s+/g, " ")
RECURSIVE CollapseWhitespace(_)
CollapseWhitespace(s) ==
  IF s = <<>> THEN <<>>
  ELSE IF s[1] \in Whitespace
    THEN <<" ">> \o CollapseWhitespace(TrimLeft(s))
    ELSE <<s[1]>> \o CollapseWhitespace(Tail(s))

DigitChars == <<"0", "1", "2", "3", "4", "5", "6", "7", "8", "9">>

\* the decimal digits of a number, as `${n}` prints it
RECURSIVE Dec(_)
Dec(n) ==
  IF n < 10 THEN <<DigitChars[n + 1]>>
  ELSE Dec(n \div 10) \o <<DigitChars[(n % 10) + 1]>>

Contains(s, ch) == \E i \in 1..Len(s) : s[i] = ch

InvalidChars == {"\\", "/", ":", "*", "?", "\"", "<", ">", "|"}

\* sanitizeFileName: t is Date.now()
SanitizeFileName(name, t) ==
  IF name = <<>> \/ Trim(name) = <<>>
    THEN <<"Untitled", "-">> \o Dec(t)
    ELSE LET replaced == [i \in 1..Len(name) |->
                            IF name[i] \in InvalidChars THEN "-" ELSE name[i]]
             trimmed == Trim(CollapseWhitespace(replaced))
         IN SubSeq(trimmed, 1, IF Len(trimmed) < MaxNameLen THEN Len(trimmed) ELSE MaxNameLen)

YamlSpecial == {":", "[", "]", "{", "}", "#", "&", "*", "!", "|", ">", "'", "\"", "%", "@", "backtick"}

RECURSIVE EscapeChars(_)
EscapeChars(s) ==
  IF s = <<>> THEN <<>>
  ELSE (IF s[1] \in {"\\", "\""} THEN <<"\\", s[1]>> ELSE <<s[1]>>) \o EscapeChars(Tail(s))

\* escapeYamlValue: the text after "key: "
EscapeYamlValue(value) ==
  IF value = <<>> THEN <<"\"", "\"">>
  ELSE IF \/ \E i \in 1..Len(value) : value[i] \in YamlSpecial
          \/ value[1] = " "
          \/ value[Len(value)] = " "
          \/ Contains(value, "\n")
    THEN <<"\"">> \o EscapeChars(value) \o <<"\"">>
    ELSE value

----------------------------------------------------------------------------
(* Documents *)

BookmarkMarker == "raindrop-bookmark"
StatusMarker == "raindrop-sync-status"
NotesHeading == "## Notes"
Unsorted == <<"Unsorted">>
Untitled == <<"Untitled">>

Root == <<>>
StatusPath == [dir |-> Root, name |-> <<"Raindrop Sync Status">>]
NoFile == [dir |-> Root, name |-> <<>>]

\* the content of a document that has no metadata block
PlainContent ==
  [fm |-> FALSE, title |-> <<>>, id |-> 0, coll |-> <<>>, ls |-> NoTime,
   marker |-> "", h1 |-> <<>>, hasNotes |-> FALSE, notes |-> <<>>]

\* content.match(/^---\n([\s\S]*?)\n---/)
HasFrontmatter(c) == c.fm

\* frontmatter.match(/raindrop_id:\s*(\d+)/), 0 when there is no match
RaindropIdOf(c) == IF HasFrontmatter(c) THEN c.id ELSE 0

\* the key of the last_synced line; a text holds it where "last_synced" is
\* followed by ":"
LastSyncedKey == "last_synced"

\* the first place where /last_synced:/ matches in a text, 0 when there is none
KeyAt(text) ==
  IF \E k \in 1..(Len(text) - 1) : text[k] = LastSyncedKey /\ text[k + 1] = ":"
    THEN CHOOSE k \in 1..(Len(text) - 1) :
           /\ text[k] = LastSyncedKey /\ text[k + 1] = ":"
           /\ \A j \in 1..(k - 1) : ~(text[j] = LastSyncedKey /\ text[j + 1] = ":")
    ELSE 0

\* the times a timestamp can show in a behaviour
Times == 0..(2 * MaxPasses + 2)

\* new Date(text): the timestamp the text spells, InvalidTime (Invalid Date)
\* when it spells none
ParseDate(text) ==
  IF \E n \in Times : Dec(n) = text THEN CHOOSE n \in Times : Dec(n) = text
  ELSE InvalidTime

\* new Date(frontmatter.match(/last_synced:\s*(.+)/)[1]), NoTime when there is
\* no match. The match is the first one in the metadata block: title: comes
\* before last_synced:, so a title that holds the key is matched first, and
\* the group runs to the end of the title line.
LastSyncedOf(c) ==
  IF KeyAt(c.title) # 0
    THEN ParseDate(TrimLeft(SubSeq(c.title, KeyAt(c.title) + 2, Len(c.title))))
    ELSE c.ls

\* syncNotesToRaindrop:
\*   content.replace(/last_synced:\s*.+/, `last_synced: ${new Date().toISOString()}`)
\* replaces the first match in the whole content up to the end of its line
WithLastSynced(c, t) ==
  IF KeyAt(c.title) # 0
    THEN [c EXCEPT !.title = SubSeq(@, 1, KeyAt(c.title) + 1) \o <<" ">> \o Dec(t)]
    ELSE IF c.ls # NoTime THEN [c EXCEPT !.ls = t] ELSE c

\* c.notes is the text that follows the first "## Notes" up to the end of the
\* document; c.hasNotes says that the heading is there, followed by a newline.
RECURSIVE DropNewlines(_)
DropNewlines(s) ==
  IF s # <<>> /\ s[1] = "\n" THEN DropNewlines(Tail(s)) ELSE s

\* content.match(/## Notes\n+([\s\S]*?)$/): the captured group
NotesGroup(c) == DropNewlines(c.notes)

\* the captured group, trimmed: the annotation of the document
NotesSection(c) == IF c.hasNotes THEN Trim(NotesGroup(c)) ELSE <<>>

\* getAllFilesInFolder(resource folder), restricted to .md files
AllFiles(fs) == DOMAIN fs

NoFiles == [p \in {} |-> [c |-> PlainContent, mtime |-> 0]]
Remove(fs, p) == [q \in (DOMAIN fs) \ {p} |-> fs[q]]
Put(fs, p, f) == [q \in (DOMAIN fs) \cup {p} |-> IF q = p THEN f ELSE fs[q]]

----------------------------------------------------------------------------
(* The remote service *)

\* the collections the service holds: B is a child of A
ServerCollections ==
  (10 :> [title |-> <<"A">>, parent |-> 0]) @@ (20 :> [title |-> <<"B">>, parent |-> 10])

NoCollections == [c \in {} |-> [title |-> <<>>, parent |-> 0]]

Absent == [present |-> FALSE, title |-> <<>>, coll |-> 0, note |-> <<>>]

\* the RaindropBookmark the service returns for record id
BookmarkOf(id) ==
  [id |-> id, title |-> remote[id].title, coll |-> remote[id].coll, note |-> remote[id].note]

----------------------------------------------------------------------------
(* Faults of the vault and of the transport: at most one per step *)

NoFault == [kind |-> "none", at |-> NoFile]

----------------------------------------------------------------------------
(* createOrUpdateNote and its helpers *)

\* getCollectionPath, as the sequence of the path's segments
RECURSIVE GetCollectionPath(_, _, _)
GetCollectionPath(collectionId, colls, t) ==
  IF collectionId \notin DOMAIN colls THEN <<>>
  ELSE GetCollectionPath(colls[collectionId].parent, colls, t)
         \o <<SanitizeFileName(colls[collectionId].title, t)>>

\* ensureFolderExists: createFolder also creates the missing parents
EnsureFolderExists(flds, dir) == flds \cup {SubSeq(dir, 1, k) : k \in 0..Len(dir)}

\* createOrUpdateNote: collectionTitle
CollectionTitleOf(b, colls) ==
  IF b.coll # 0 /\ b.coll \in DOMAIN colls /\ colls[b.coll].title # <<>>
    THEN colls[b.coll].title
    ELSE Unsorted

\* createOrUpdateNote: folderPath, below the resource folder
TargetFolder(b, colls, t) ==
  IF settings.useCollectionFolders
    THEN IF CollectionTitleOf(b, colls) # Unsorted
           THEN GetCollectionPath(b.coll, colls, t)
           ELSE <<Unsorted>>
    ELSE Root

\* ensureUniqueFileName: the name tried when the counter is c (Title, Title-2,
\* Title-3, ...)
CandidateName(baseFileName, c) ==
  IF c = 1 THEN baseFileName ELSE baseFileName \o <<"-">> \o Dec(c)

\* ensureUniqueFileName: the loop returns fileName (no file has the name, or the
\* file read there carries the remote id); bad is the set of documents whose
\* read throws
NameUsable(fs, bad, dir, fileName, raindropId) ==
  LET filePath == [dir |-> dir, name |-> fileName]
  IN \/ filePath \notin DOMAIN fs
     \/ /\ filePath \notin bad
        /\ RaindropIdOf(fs[filePath].c) # 0
        /\ RaindropIdOf(fs[filePath].c) = raindropId

\* ensureUniqueFileName: the first name the loop can return while the counter
\* is below maxAttempts, the name keyed by the remote id when there is none
EnsureUniqueFileName(fs, bad, dir, baseFileName, raindropId) ==
  LET usable(c) == NameUsable(fs, bad, dir, CandidateName(baseFileName, c), raindropId)
  IN IF \E c \in 1..(maxAttempts - 1) : usable(c)
       THEN CandidateName(baseFileName,
                          CHOOSE c \in 1..(maxAttempts - 1) :
                            usable(c) /\ \A d \in 1..(c - 1) : ~usable(d))
       ELSE baseFileName \o <<"-">> \o Dec(raindropId)

\* findFileByRaindropId: the documents the scan can return (it returns the first
\* one in the order of getAllFilesInFolder, which the vault decides)
FilesWithRaindropId(fs, bad, raindropId) ==
  {p \in AllFiles(fs) : p \notin bad /\ RaindropIdOf(fs[p].c) # 0
                                     /\ RaindropIdOf(fs[p].c) = raindropId}

\* generateNoteContent: t is new Date()
GenerateNoteContent(b, collectionTitle, t) ==
  LET title == IF b.title # <<>> THEN b.title ELSE Untitled
  IN [fm |-> TRUE, title |-> EscapeYamlValue(title), id |-> b.id,
      coll |-> EscapeYamlValue(collectionTitle), ls |-> t, marker |-> BookmarkMarker,
      h1 |-> title, hasNotes |-> TRUE, notes |-> <<"\n", "\n">> \o b.note \o <<"\n">>]

\* The replacement patterns of String.prototype.replace with a string as the
\* replacement: $$ is "$", $& the matched text, $1 the first captured group.
RECURSIVE ExpandReplacement(_, _, _)
ExpandReplacement(repl, matched, group1) ==
  IF repl = <<>> THEN <<>>
  ELSE IF repl[1] = "$" /\ Len(repl) >= 2 /\ repl[2] = "$"
    THEN <<"$">> \o ExpandReplacement(SubSeq(repl, 3, Len(repl)), matched, group1)
  ELSE IF repl[1] = "$" /\ Len(repl) >= 2 /\ repl[2] = "&"
    THEN matched \o ExpandReplacement(SubSeq(repl, 3, Len(repl)), matched, group1)
  ELSE IF repl[1] = "$" /\ Len(repl) >= 2 /\ repl[2] = "1"
    THEN group1 \o ExpandReplacement(SubSeq(repl, 3, Len(repl)), matched, group1)
  ELSE <<repl[1]>> \o ExpandReplacement(Tail(repl), matched, group1)

\* createOrUpdateNote: newContentWithLocalNotes
\*   noteContent.replace(/## Notes\n+([\s\S]*?)$/, `## Notes\n\n${localNotes}`)
WithLocalNotes(noteContent, localNotes) ==
  [noteContent EXCEPT !.notes =
     <<"\n", "\n">> \o ExpandReplacement(localNotes, <<NotesHeading>> \o noteContent.notes,
                                         NotesGroup(noteContent))]

\* createOrUpdateNote: fileModified > lastSynced, when last_synced is in the metadata
LocalEditNewer(f) ==
  /\ HasFrontmatter(f.c)
  /\ LastSyncedOf(f.c) \notin {NoTime, InvalidTime}
  /\ f.mtime > LastSyncedOf(f.c)

\* createOrUpdateNote: needsEscapingFix
NeedsEscapingFix(c) ==
  /\ HasFrontmatter(c)
  /\ ~(c.title # <<>> /\ c.title[1] = "\"")
  /\ Contains(c.title, ":")

\* no stale copy is deleted
StaleCopyNever(found, filePath) == NoFile

\* createOrUpdateNote: the stale copy that is deleted before the write
StaleCopy(found, filePath) ==
  IF found # NoFile /\ found # filePath THEN found ELSE NoFile

(* createOrUpdateNote(bookmark, collections) on the vault (fs, flds) at time t.
   found is the result of findFileByRaindropId, d the milliseconds that pass
   between new Date() in generateNoteContent and the write, fault the operation
   that throws in this call. result "failed" stands for a thrown exception. *)
CreateOrUpdateNote(b, colls, fs, flds, t, d, found, fault) ==
  LET bad == IF fault.kind = "read" THEN {fault.at} ELSE {}
      collectionTitle == CollectionTitleOf(b, colls)
      folderPath == TargetFolder(b, colls, t)
      mkdir == settings.useCollectionFolders /\ folderPath \notin flds
      flds1 == IF settings.useCollectionFolders
                 THEN EnsureFolderExists(flds, folderPath) ELSE flds
      baseFileName == SanitizeFileName(b.title, t)
      fileName == EnsureUniqueFileName(fs, bad, folderPath, baseFileName, b.id)
      filePath == [dir |-> folderPath, name |-> fileName]
      stale == StaleCopy(found, filePath)
      fs1 == IF stale # NoFile THEN Remove(fs, stale) ELSE fs
      noteContent == GenerateNoteContent(b, collectionTitle, t)
      written(c) == Put(fs1, filePath, [c |-> c, mtime |-> t + d])
      out(f, g, r, br) ==
        [files |-> f, folders |-> g, result |-> r, target |-> filePath,
         stale |-> stale, branch |-> br]
  IN
  IF mkdir /\ fault.kind = "mkdir" THEN out(fs, flds, "failed", "mkdir")
  ELSE IF stale # NoFile /\ fault.kind = "delete" THEN out(fs, flds1, "failed", "delete")
  ELSE IF filePath \in DOMAIN fs1
    THEN IF filePath \in bad
           \* the read throws and vault.create finds the path taken
           THEN out(fs1, flds1, "failed", "unreadable")
         ELSE IF LocalEditNewer(fs1[filePath])
           THEN IF fault.kind = "write" THEN out(fs1, flds1, "failed", "conflict")
                ELSE out(written(WithLocalNotes(noteContent, NotesSection(fs1[filePath].c))),
                         flds1, "updated", "conflict")
         ELSE IF NeedsEscapingFix(fs1[filePath].c)
           THEN IF fault.kind = "write" THEN out(fs1, flds1, "failed", "escaping")
                ELSE out(written(noteContent), flds1, "updated", "escaping")
         ELSE IF fs1[filePath].c # noteContent
           THEN IF fault.kind = "write" THEN out(fs1, flds1, "failed", "differs")
                ELSE out(written(noteContent), flds1, "updated", "differs")
         ELSE out(fs1, flds1, "skipped", "same")
    ELSE IF fault.kind = "write" THEN out(fs1, flds1, "failed", "create")
         ELSE out(written(noteContent), flds1, "created", "create")

----------------------------------------------------------------------------
(* syncNotesToRaindrop *)

\* syncNotesToRaindrop: the document is pushed (it has a remote id, was modified
\* after last_synced, epoch when the field is absent, and has an annotation)
NeedsPush(f) ==
  /\ HasFrontmatter(f.c)
  /\ RaindropIdOf(f.c) # 0
  \* fileModified <= lastSynced is false for an Invalid Date
  /\ \/ LastSyncedOf(f.c) = InvalidTime
     \/ f.mtime > (IF LastSyncedOf(f.c) # NoTime THEN LastSyncedOf(f.c) ELSE 0)
  /\ f.c.hasNotes
  /\ NotesSection(f.c) # <<>>

\* syncNotesToRaindrop: one iteration of the loop over the files. st is
\* [remote, files, count, requests, refused], requests the documents a PUT was
\* sent for and refused those whose PUT threw; late is the set of documents whose write ends a
\* millisecond after new Date(); the PUT of a record the service no longer
\* holds is refused.
PushOne(st, p, t, late, fault) ==
  LET f == st.files[p]
      id == RaindropIdOf(f.c)
  IN IF fault.kind = "read" /\ fault.at = p THEN st
     ELSE IF ~NeedsPush(f) THEN st
     ELSE IF (fault.kind = "push" /\ fault.at = p) \/ ~st.remote[id].present
       THEN [st EXCEPT !.requests = @ \cup {p}, !.refused = @ \cup {p}]
     ELSE LET pushed == [st EXCEPT !.remote[id].note = NotesSection(f.c),
                                   !.requests = @ \cup {p}]
          IN IF fault.kind = "write" /\ fault.at = p THEN pushed
             ELSE [pushed EXCEPT
                     !.files[p] = [c |-> WithLastSynced(f.c, t),
                                   mtime |-> t + (IF p \in late THEN 1 ELSE 0)],
                     !.count = @ + 1]

RECURSIVE PushAll(_, _, _, _, _)
PushAll(st, todo, t, late, fault) ==
  IF todo = {} THEN st
  ELSE LET p == CHOOSE q \in todo : TRUE
       IN PushAll(PushOne(st, p, t, late, fault), todo \ {p}, t, late, fault)

\* syncNotesToRaindrop: [remote, files, count] after the reverse pass
SyncNotesToRaindrop(rem, fs, flds, t, late, fault) ==
  LET st == [remote |-> rem, files |-> fs, count |-> 0, requests |-> {}, refused |-> {}]
  IN IF Root \notin flds THEN st ELSE PushAll(st, AllFiles(fs), t, late, fault)

----------------------------------------------------------------------------
(* cleanupDeletedBookmarks and cleanupEmptyFolders *)

ChildFolders(flds, dir) ==
  {g \in flds : Len(g) = Len(dir) + 1 /\ SubSeq(g, 1, Len(dir)) = dir}

\* folder.children.length === 0
IsEmptyFolder(flds, fs, dir) ==
  ChildFolders(flds, dir) = {} /\ ~\E p \in DOMAIN fs : p.dir = dir

RECURSIVE CleanupEmptyFolders(_, _, _, _)
RECURSIVE CleanupChildren(_, _, _, _)

\* cleanupEmptyFolders: the loop over the children that are folders
CleanupChildren(flds, fs, todo, fault) ==
  IF todo = {} THEN flds
  ELSE LET child == CHOOSE g \in todo : TRUE
           cleaned == CleanupEmptyFolders(flds, fs, child, fault)
           after == IF /\ child \in cleaned
                       /\ IsEmptyFolder(cleaned, fs, child)
                       /\ ~(fault.kind = "rmdir" /\ fault.at.dir = child)
                      THEN cleaned \ {child}
                      ELSE cleaned
       IN CleanupChildren(after, fs, todo \ {child}, fault)

\* only the children of the folder are looked at
CleanupEmptyFoldersOneLevel(flds, fs, dir, fault) ==
  flds \ {g \in ChildFolders(flds, dir) : IsEmptyFolder(flds, fs, g)}

\* cleanupEmptyFolders(folder): the folders that are left
CleanupEmptyFolders(flds, fs, dir, fault) ==
  CleanupChildren(flds, fs, ChildFolders(flds, dir), fault)

\* no document is deleted
IsOrphanNever(c, syncedRaindropIds) == FALSE

\* cleanupDeletedBookmarks: the document is deleted
IsOrphan(c, syncedRaindropIds) ==
  HasFrontmatter(c) /\ RaindropIdOf(c) # 0 /\ RaindropIdOf(c) \notin syncedRaindropIds

\* the scan ends at the document that cannot be read
OrphansDeletedUntilFailure(fs, syncedRaindropIds, fault) ==
  {p \in AllFiles(fs) :
     /\ fault.kind # "read"
     /\ IsOrphan(fs[p].c, syncedRaindropIds)
     /\ ~(fault.kind = "delete" /\ fault.at = p)}

\* cleanupDeletedBookmarks: the documents that are deleted
OrphansDeleted(fs, syncedRaindropIds, fault) ==
  {p \in AllFiles(fs) :
     /\ ~(fault.kind = "read" /\ fault.at = p)
     /\ IsOrphan(fs[p].c, syncedRaindropIds)
     /\ ~(fault.kind = "delete" /\ fault.at = p)}

\* cleanupDeletedBookmarks: [files, folders] after the cleanup
CleanupDeletedBookmarks(fs, flds, syncedRaindropIds, fault) ==
  IF Root \notin flds THEN [files |-> fs, folders |-> flds]
  ELSE LET kept == [p \in AllFiles(fs) \ OrphansDeleted(fs, syncedRaindropIds, fault) |-> fs[p]]
       IN [files |-> kept, folders |-> CleanupEmptyFolders(flds, kept, Root, fault)]

----------------------------------------------------------------------------
(* fetchAllBookmarks *)

\* the test mode limit never ends the fetch
TestModeStopNever(got) == FALSE

\* fetchAllBookmarks: the test mode limit is reached
TestModeStop(got) == settings.testMode /\ got >= settings.testModeLimit

\* hasMore without the comparison with the reported count
HasMoreFullPage(n, got, total) == n = perPage

\* fetchAllBookmarks: hasMore after a page of n items that brought the running
\* total to got; total is totalCountFromAPI
HasMore(n, got, total) ==
  IF total # NoCount /\ got >= total THEN FALSE ELSE n = perPage

PageOf(items, page) ==
  SubSeq(items, page * perPage + 1,
         IF (page + 1) * perPage < Len(items) THEN (page + 1) * perPage ELSE Len(items))

\* fetchAllBookmarks against a service that holds items and reports their number
RECURSIVE FetchPages(_, _, _)
FetchPages(items, page, all) ==
  LET got == all \o PageOf(items, page)
  IN IF TestModeStop(Len(got)) THEN SubSeq(got, 1, settings.testModeLimit)
     ELSE IF HasMore(Len(PageOf(items, page)), Len(got), Len(items))
       THEN FetchPages(items, page + 1, got)
       ELSE got

FetchAllBookmarks(items) == FetchPages(items, 0, <<>>)

----------------------------------------------------------------------------
(* The state after the plugin is loaded *)

\* what the remote service may hold for a record
TitlesOf(id) ==
  IF id = 1 THEN {<<"a", "-", "b">>, <<"a", ":", "b">>, <<"c">>} ELSE {<<"a", "-", "b">>}
CollsOf(id) == IF id = 1 THEN {10, 20} ELSE {10}
NotesOf(id) == IF id = 1 THEN {<<>>, <<"r">>} ELSE {<<>>}
RecordsOf(id) ==
  {[present |-> TRUE, title |-> ti, coll |-> co, note |-> <<>>] :
     ti \in TitlesOf(id), co \in CollsOf(id)}

\* what the user types into the annotation of a document
UserNotes == {<<"k">>, <<"$", "1">>}

\* where the user keeps a document of their own
PlainPath ==
  [dir |-> IF settings.useCollectionFolders THEN <<<<"A">>>> ELSE Root,
   name |-> <<"a", "-", "b">>]

\* DEFAULT_SETTINGS with a token, and the settings that differ from it
DefaultSettings ==
  [apiToken |-> TRUE, useCollectionFolders |-> TRUE, bidirectionalSync |-> TRUE,
   testMode |-> FALSE, testModeLimit |-> DefaultTestModeLimit]
NoTokenSettings == [DefaultSettings EXCEPT !.apiToken = FALSE]
MainSettings ==
  {DefaultSettings, [DefaultSettings EXCEPT !.bidirectionalSync = FALSE], NoTokenSettings}
TestModeSettings ==
  {[DefaultSettings EXCEPT !.bidirectionalSync = FALSE, !.testMode = TRUE,
                           !.testModeLimit = 1],
   NoTokenSettings}

NoCounts == [created |-> 0, updated |-> 0, skipped |-> 0, failed |-> 0]
NoOp == [op |-> "none", id |-> 0, result |-> "", target |-> NoFile, found |-> NoFile,
         branch |-> "", fault |-> "none", requests |-> {}, refused |-> {}, removed |-> {}]
NoWalk == [pc |-> "off", currentId |-> 0, pathParts |-> <<>>, ids |-> <<>>]
NoRecord == [id |-> 0, title |-> <<>>, link |-> <<>>, tags |-> <<>>]
NoCodec == [pc |-> "off", b |-> NoRecord, collectionTitle |-> <<>>, content |-> <<>>,
            read |-> [id |-> 0, lastSynced |-> NoTime, tags |-> <<>>, remoteTags |-> <<>>,
                      marker |-> FALSE]]
NoFetch == [pc |-> "off", page |-> 0, got |-> 0, total |-> NoCount, hasMore |-> FALSE,
            serverCount |-> NoCount, requests |-> <<>>, sizes |-> <<>>, delays |-> 0]

\* the state after onload, with the settings drawn from S, a budget of e changes
\* by the user and the service, a budget of f failing operations, and the
\* records of the service drawn from R
InitOn(S, e, f, R) ==
  /\ settings \in S
  /\ writeLag \in {0, 1}
  /\ faults = f
  /\ now = 0
  /\ remote \in R
  /\ \/ /\ folders = {}
        /\ files = NoFiles
     \/ /\ folders = EnsureFolderExists({}, PlainPath.dir)
        /\ files = (PlainPath :> [c |-> PlainContent, mtime |-> 0])
  /\ pc = "idle"
  /\ collections = NoCollections
  /\ bookmarks = <<>>
  /\ idx = 0
  /\ counts = NoCounts
  /\ syncedBack = 0
  /\ lastSyncTime = NoTime
  /\ passes = 0
  /\ envOps = e
  /\ lastOp = NoOp
  /\ before = NoFiles
  /\ log = <<>>
  /\ fetch = NoFetch
  /\ running = 0
  /\ walk = NoWalk
  /\ codec = NoCodec

\* the records the service holds at the start
MainRemotes ==
  {r \in [Ids -> {Absent} \cup UNION {RecordsOf(id) : id \in Ids}] :
     /\ r[1] \in {Absent} \cup {x \in RecordsOf(1) : x.title = <<"a", "-", "b">>}
     /\ r[2] \in RecordsOf(2)}

\* a record whose title holds the text "last_synced: x"
KeyTitle == <<LastSyncedKey, ":", " ", "x">>
KeyTitleRemotes ==
  {r \in [Ids -> {Absent} \cup UNION {RecordsOf(id) : id \in Ids}
                          \cup {[present |-> TRUE, title |-> KeyTitle, coll |-> 10,
                                 note |-> n] : n \in {<<>>, <<"r">>}}] :
     /\ r[1].present /\ r[1].title = KeyTitle
     /\ r[2] \in {Absent} \cup RecordsOf(2)}

InitWith(S, e, f) == InitOn(S, e, f, MainRemotes)

Init == InitWith(MainSettings, MaxEnvOps, MaxFaults)
\* the service holds a record whose title holds the key of the last_synced line
InitKeyTitle == InitOn(MainSettings, MaxEnvOps, MaxFaults, KeyTitleRemotes)
\* one more change by the user or the service
InitTwoChanges == InitWith(MainSettings, MaxEnvOps + 1, MaxFaults)
\* one more failing operation
InitFaults == InitWith(MainSettings, MaxEnvOps, MaxFaults + 1)
\* exactly one failing operation
InitOneFault == InitWith(MainSettings, MaxEnvOps, 1)
\* test mode, capped below the number of records
InitTestMode == InitWith(TestModeSettings, MaxEnvOps, MaxFaults)

----------------------------------------------------------------------------
(* The user and the remote service, between two passes *)

Idle == pc \in {"idle", "done"}

\* The user and the service act after the first pass of a behaviour: what they
\* did before it is in the initial state, and nothing observes what they do
\* after the last pass.
BetweenPasses == Idle /\ envOps > 0 /\ passes = 1 /\ passes < MaxPasses

EnvFrame ==
  /\ pc' = "idle"
  /\ envOps' = envOps - 1
  /\ lastOp' = [NoOp EXCEPT !.op = "env"]
  /\ collections' = NoCollections
  /\ bookmarks' = <<>>
  /\ idx' = 0
  /\ counts' = NoCounts
  /\ syncedBack' = 0
  /\ before' = NoFiles
  /\ log' = <<>>
  /\ UNCHANGED <<settings, lastSyncTime, passes, writeLag, faults, fetch, running, walk, codec>>

\* the service creates a record
RemoteAdd ==
  /\ BetweenPasses
  /\ \E id \in Ids : \E r \in RecordsOf(id) :
       /\ ~remote[id].present
       /\ remote' = [remote EXCEPT ![id] = r]
  /\ EnvFrame
  /\ UNCHANGED <<now, folders, files>>

\* the service changes the title, the collection or the annotation of a record
RemoteEdit ==
  /\ BetweenPasses
  /\ \E id \in Ids :
       /\ remote[id].present
       /\ \/ \E ti \in TitlesOf(id) \ {remote[id].title} :
               remote' = [remote EXCEPT ![id].title = ti]
          \/ \E co \in CollsOf(id) \ {remote[id].coll} :
               remote' = [remote EXCEPT ![id].coll = co]
          \/ \E no \in NotesOf(id) \ {remote[id].note} :
               remote' = [remote EXCEPT ![id].note = no]
  /\ EnvFrame
  /\ UNCHANGED <<now, folders, files>>

\* the service deletes a record
RemoteDelete ==
  /\ BetweenPasses
  /\ \E id \in Ids :
       /\ remote[id].present
       /\ remote' = [remote EXCEPT ![id] = Absent]
  /\ EnvFrame
  /\ UNCHANGED <<now, folders, files>>

\* the user rewrites the annotation of a bookmark document
UserEdit ==
  /\ BetweenPasses
  /\ \E p \in DOMAIN files : \E text \in UserNotes :
       /\ RaindropIdOf(files[p].c) # 0
       /\ files[p].c.hasNotes
       /\ NotesSection(files[p].c) # text
       /\ files' = [files EXCEPT ![p] = [c |-> [@.c EXCEPT !.notes = <<"\n", "\n">> \o text],
                                          mtime |-> now + 1]]
  /\ now' = now + 1
  /\ EnvFrame
  /\ UNCHANGED <<remote, folders>>

\* the user deletes their own document
UserDeletePlain ==
  /\ BetweenPasses
  /\ PlainPath \in DOMAIN files
  /\ ~HasFrontmatter(files[PlainPath].c)
  /\ files' = Remove(files, PlainPath)
  /\ EnvFrame
  /\ UNCHANGED <<now, remote, folders>>

----------------------------------------------------------------------------
(* syncBookmarks, one step per awaited phase *)

\* the faults a step may meet
Allowed(S) == IF faults > 0 THEN S ELSE {NoFault}
Count(fault) == faults - (IF fault.kind = "none" THEN 0 ELSE 1)
\* a failure is one only where the operation it is planted on is reached: the
\* outcome r is then none of the outcomes the step has without it
Felt(fault, r, clean) == fault.kind = "none" \/ r \notin clean

ReverseFaults(fs) ==
  Allowed({NoFault} \cup
          {[kind |-> k, at |-> p] : k \in {"read", "push", "write"},
                                    p \in {q \in DOMAIN fs : NeedsPush(fs[q])}})

\* syncBookmarks: the token is set
HasTokenAlways == TRUE

HasToken == settings.apiToken

\* the counter a record counts for, whatever createOrUpdateNote did
CountAsSkippedWhenFailed(result) == IF result = "failed" THEN "skipped" ELSE result

\* syncBookmarks: the counter the outcome of createOrUpdateNote increments
\* ("failed" in the catch block)
CountAs(result) == result

\* the cleanup starts after the first record
NextPhaseAfterFirst(done, total) == "cleanup"

\* the loop ends one record short
NextPhaseSkipLast(done, total) == IF done + 1 >= total THEN "cleanup" ELSE "forward"

\* syncBookmarks: the loop over the fetched records goes on until all are done
NextPhase(done, total) == IF done = total THEN "cleanup" ELSE "forward"

\* syncBookmarks without a token: a notice, nothing else
SyncNoToken ==
  /\ Idle
  /\ ~HasToken
  /\ lastOp # [NoOp EXCEPT !.op = "noToken"]
  /\ lastOp' = [NoOp EXCEPT !.op = "noToken"]
  /\ UNCHANGED <<running, walk, codec, settings, now, remote, folders, files, pc, collections, bookmarks, idx,
                 counts, syncedBack, lastSyncTime, passes, envOps, before, log, writeLag,
                 faults, fetch>>

\* syncBookmarks up to the end of syncNotesToRaindrop
StartSync ==
  /\ Idle
  /\ HasToken
  /\ passes < MaxPasses
  /\ passes' = passes + 1
  /\ now' = now + 1
  /\ before' = files
  /\ IF settings.bidirectionalSync
       THEN \E fault \in ReverseFaults(files) :
              LET late == IF writeLag = 1 THEN DOMAIN files ELSE {}
                  r == SyncNotesToRaindrop(remote, files, folders, now + 1, late, fault)
              IN /\ Felt(fault, r, {SyncNotesToRaindrop(remote, files, folders, now + 1,
                                                        late, NoFault)})
                 /\ remote' = r.remote
                 /\ files' = r.files
                 /\ syncedBack' = r.count
                 /\ faults' = Count(fault)
                 /\ lastOp' = [NoOp EXCEPT !.op = "reverse", !.fault = fault.kind,
                                           !.requests = r.requests,
                                           !.refused = r.refused]
       ELSE /\ syncedBack' = 0
            /\ lastOp' = [NoOp EXCEPT !.op = "start"]
            /\ UNCHANGED <<remote, files, faults>>
  /\ log' = <<lastOp'>>
  /\ pc' = IF settings.useCollectionFolders THEN "collections" ELSE "bookmarks"
  /\ collections' = NoCollections
  /\ bookmarks' = <<>>
  /\ idx' = 0
  /\ counts' = NoCounts
  /\ running' = running + 1
  /\ UNCHANGED <<walk, codec, settings, folders, lastSyncTime, envOps, writeLag, fetch>>

\* fetchCollections: a failure is logged and an empty list is returned
FetchCollections ==
  /\ pc = "collections"
  /\ \E fault \in Allowed({NoFault, [kind |-> "fetch", at |-> NoFile]}) :
       /\ collections' = IF fault.kind = "none" THEN ServerCollections ELSE NoCollections
       /\ faults' = Count(fault)
       /\ lastOp' = [NoOp EXCEPT !.op = "collections", !.fault = fault.kind]
  /\ log' = Append(log, lastOp')
  /\ pc' = "bookmarks"
  /\ UNCHANGED <<running, walk, codec, settings, now, remote, folders, files, bookmarks, idx, counts, syncedBack,
                 lastSyncTime, passes, envOps, before, writeLag, fetch>>

\* the orders in which the service may list the records it holds
Orders(S) ==
  {o \in [1..Cardinality(S) -> S] : \A i, j \in 1..Cardinality(S) : i # j => o[i] # o[j]}

Present == {id \in Ids : remote[id].present}

\* the error of the fetch is swallowed and the pass goes on with no records
AfterFetchFailureCleanup == "cleanup"

\* syncBookmarks: the catch block ends the pass
AfterFetchFailure == "idle"

\* fetchAllBookmarks and ensureFolderExists(resourceFolder); a failed request
\* ends the pass in the catch block of syncBookmarks
FetchBookmarks ==
  /\ pc = "bookmarks"
  /\ now' = now + 1
  /\ \/ /\ faults > 0
        /\ faults' = faults - 1
        /\ pc' = AfterFetchFailure
        /\ lastOp' = [NoOp EXCEPT !.op = "fetch", !.fault = "fetch"]
        /\ running' = running - 1
        /\ UNCHANGED <<bookmarks, folders>>
     \/ \E o \in Orders(Present) :
          LET got == FetchAllBookmarks([i \in 1..Cardinality(Present) |-> BookmarkOf(o[i])])
          IN /\ bookmarks' = got
             /\ folders' = EnsureFolderExists(folders, Root)
             /\ pc' = NextPhase(0, Len(got))
             /\ lastOp' = [NoOp EXCEPT !.op = "fetch"]
             /\ UNCHANGED <<faults, running>>
  /\ log' = Append(log, lastOp')
  /\ UNCHANGED <<walk, codec, settings, remote, files, collections, idx, counts, syncedBack,
                 lastSyncTime, passes, envOps, before, writeLag, fetch>>

ForwardFaults(fs) ==
  Allowed({NoFault} \cup {[kind |-> k, at |-> NoFile] : k \in {"mkdir", "delete", "write"}}
                    \cup {[kind |-> "read", at |-> p] : p \in DOMAIN fs})

\* the results findFileByRaindropId can give
FindFileByRaindropId(fs, bad, raindropId) ==
  IF FilesWithRaindropId(fs, bad, raindropId) = {}
    THEN {NoFile}
    ELSE FilesWithRaindropId(fs, bad, raindropId)

\* the loop of syncBookmarks over the fetched records: one iteration
ProcessBookmark ==
  /\ pc = "forward"
  /\ idx < Len(bookmarks)
  /\ \E fault \in ForwardFaults(files) :
     \E found \in FindFileByRaindropId(files, IF fault.kind = "read" THEN {fault.at} ELSE {},
                                        bookmarks[idx + 1].id) :
       LET b == bookmarks[idx + 1]
           r == CreateOrUpdateNote(b, collections, files, folders, now, writeLag, found, fault)
       IN /\ Felt(fault, r, {CreateOrUpdateNote(b, collections, files, folders, now,
                                                 writeLag, f, NoFault) :
                                f \in FindFileByRaindropId(files, {}, b.id)})
          /\ files' = r.files
          /\ faults' = Count(fault)
          /\ folders' = r.folders
          /\ counts' = [counts EXCEPT ![CountAs(r.result)] = @ + 1]
          /\ lastOp' = [NoOp EXCEPT !.op = "forward", !.id = b.id, !.result = r.result,
                                    !.target = r.target, !.found = found,
                                    !.branch = r.branch, !.fault = fault.kind]
          /\ log' = Append(log, lastOp')
  /\ idx' = idx + 1
  /\ pc' = NextPhase(idx + 1, Len(bookmarks))
  /\ UNCHANGED <<running, walk, codec, settings, now, remote, collections, bookmarks, syncedBack, lastSyncTime,
                 passes, envOps, before, writeLag, fetch>>

SyncedRaindropIds == {bookmarks[i].id : i \in 1..Len(bookmarks)}

CleanupFaults(fs, flds) ==
  Allowed({NoFault}
    \cup {[kind |-> k, at |-> p] : k \in {"read", "delete"},
                                   p \in {q \in DOMAIN fs : IsOrphan(fs[q].c, SyncedRaindropIds)}}
    \cup {[kind |-> "rmdir", at |-> [dir |-> g, name |-> <<>>]] : g \in flds \ {Root}})

\* cleanupDeletedBookmarks(syncedRaindropIds, collections)
Cleanup ==
  /\ pc = "cleanup"
  /\ \E fault \in CleanupFaults(files, folders) :
       LET r == CleanupDeletedBookmarks(files, folders, SyncedRaindropIds, fault)
       IN /\ Felt(fault, r, {CleanupDeletedBookmarks(files, folders, SyncedRaindropIds,
                                                      NoFault)})
          /\ files' = r.files
          /\ folders' = r.folders
          /\ faults' = Count(fault)
          /\ lastOp' = [NoOp EXCEPT !.op = "cleanup", !.fault = fault.kind,
                                    !.removed = folders \ r.folders]
  /\ log' = Append(log, lastOp')
  /\ pc' = "status"
  /\ UNCHANGED <<running, walk, codec, settings, now, remote, collections, bookmarks, idx, counts, syncedBack,
                 lastSyncTime, passes, envOps, before, writeLag, fetch>>

\* updateSyncStatusNote: the document it writes
StatusContent ==
  [PlainContent EXCEPT !.fm = TRUE, !.marker = StatusMarker,
                       !.h1 = <<"Raindrop Sync Status">>]

\* the keys of the lines under "Sync Statistics"
TotalKey == "Total Bookmarks"
CreatedKey == "Created"
UpdatedKey == "Updated"
SkippedKey == "Skipped"
FailedKey == "Failed"
SyncedBackKey == "Synced Back to Raindrop"

\* updateSyncStatusNote: a line "- **key:** n"
StatLine(key, n) == <<"-", " ", key, ":", " ">> \o Dec(n) \o <<"\n">>

\* updateSyncStatusNote: the lines under "Sync Statistics"; the line of the
\* failed records is there only if (failedCount > 0), the line of the pushes
\* only with bidirectionalSync
SyncStatistics(totalBookmarks, c, syncedBackCount) ==
  StatLine(TotalKey, totalBookmarks) \o StatLine(CreatedKey, c.created)
    \o StatLine(UpdatedKey, c.updated) \o StatLine(SkippedKey, c.skipped)
    \o (IF c.failed > 0 THEN StatLine(FailedKey, c.failed) \o <<"\n">> ELSE <<"\n">>)
    \o (IF settings.bidirectionalSync THEN StatLine(SyncedBackKey, syncedBackCount)
                                       ELSE <<"\n">>)

\* the new lines are written below those the document holds
StatusNoteAppended(totalBookmarks, c, syncedBackCount) ==
  [StatusContent EXCEPT
     !.notes = (IF StatusPath \in DOMAIN files THEN files[StatusPath].c.notes ELSE <<>>)
                 \o SyncStatistics(totalBookmarks, c, syncedBackCount)]

\* updateSyncStatusNote: content
StatusNote(totalBookmarks, c, syncedBackCount) ==
  [StatusContent EXCEPT !.notes = SyncStatistics(totalBookmarks, c, syncedBackCount)]

\* lastSyncTime = new Date() and updateSyncStatusNote; a failed write is logged
UpdateSyncStatusNote ==
  /\ pc = "status"
  /\ lastSyncTime' = now
  /\ \E fault \in Allowed({NoFault, [kind |-> "write", at |-> StatusPath]}) :
       /\ files' = IF fault.kind = "none"
                      THEN Put(files, StatusPath,
                               [c |-> StatusNote(Len(bookmarks), counts, syncedBack),
                                mtime |-> now])
                      ELSE files
       /\ faults' = Count(fault)
       /\ lastOp' = [NoOp EXCEPT !.op = "status", !.fault = fault.kind]
  /\ log' = Append(log, lastOp')
  /\ pc' = "done"
  /\ running' = running - 1
  /\ UNCHANGED <<walk, codec, settings, now, remote, folders, collections, bookmarks, idx, counts,
                 syncedBack, passes, envOps, before, writeLag, fetch>>

Next ==
  \/ RemoteAdd \/ RemoteEdit \/ RemoteDelete
  \/ UserEdit \/ UserDeletePlain
  \/ SyncNoToken \/ StartSync \/ FetchCollections \/ FetchBookmarks
  \/ ProcessBookmark \/ Cleanup \/ UpdateSyncStatusNote

Spec == Init /\ [][Next]_vars

(* The ribbon icon or the Full Sync command while a call of syncBookmarks is
   suspended: onload registers both with syncBookmarks as the callback, and
   syncBookmarks starts whenever the token is set. The second call is followed
   up to the end of its syncNotesToRaindrop, where it waits for the service. *)
SecondTrigger ==
  /\ ~Idle
  /\ HasToken
  /\ running < MaxRunning
  /\ running' = running + 1
  /\ IF settings.bidirectionalSync
       THEN LET late == IF writeLag = 1 THEN DOMAIN files ELSE {}
                r == SyncNotesToRaindrop(remote, files, folders, now, late, NoFault)
            IN /\ remote' = r.remote
               /\ files' = r.files
       ELSE UNCHANGED <<remote, files>>
  /\ lastOp' = [NoOp EXCEPT !.op = "trigger"]
  /\ UNCHANGED <<walk, codec, settings, now, folders, pc, collections, bookmarks, idx, counts,
                 syncedBack, lastSyncTime, passes, envOps, before, log, writeLag, faults,
                 fetch>>

NextTriggers == Next \/ SecondTrigger

SpecTriggers == Init /\ [][NextTriggers]_vars
SpecTwoChanges == InitTwoChanges /\ [][Next]_vars
SpecFaults == InitFaults /\ [][Next]_vars
SpecTestMode == InitTestMode /\ [][Next]_vars
SpecOneFault == InitOneFault /\ [][Next]_vars
SpecKeyTitle == InitKeyTitle /\ [][Next]_vars

----------------------------------------------------------------------------
(* fetchAllBookmarks, one step per request, against a service that reports a
   count and answers each request with a page of some size *)

ServerCounts == {NoCount, 50, 100, 127}
PageSizes == {0, 27, perPage}

FetchSettings ==
  {DefaultSettings, [DefaultSettings EXCEPT !.testMode = TRUE],
   [DefaultSettings EXCEPT !.testMode = TRUE, !.testModeLimit = 120]}

InitFetch ==
  /\ settings \in FetchSettings
  /\ writeLag = 0
  /\ faults = 0
  /\ now = 0
  /\ remote = [id \in Ids |-> Absent]
  /\ folders = {}
  /\ files = NoFiles
  /\ pc = "bookmarks"
  /\ collections = NoCollections
  /\ bookmarks = <<>>
  /\ idx = 0
  /\ counts = NoCounts
  /\ syncedBack = 0
  /\ lastSyncTime = NoTime
  /\ passes = 1
  /\ envOps = 0
  /\ lastOp = NoOp
  /\ before = NoFiles
  /\ log = <<>>
  /\ running = 0
  /\ walk = NoWalk
  /\ codec = NoCodec
  /\ \E T \in ServerCounts :
       fetch = [NoFetch EXCEPT !.pc = "request", !.hasMore = TRUE, !.serverCount = T]

FetchFrame ==
  UNCHANGED <<running, walk, codec, settings, now, remote, folders, files, pc, collections, bookmarks, idx,
              counts, syncedBack, lastSyncTime, passes, envOps, lastOp, before, log,
              writeLag, faults>>

\* the next request follows at once
AfterPageNoDelay(more) == IF more THEN "request" ELSE "returned"

\* fetchAllBookmarks: the pause is made only if (hasMore); without it the
\* loop ends and the records are returned
AfterPage(more) == IF more THEN "delay" ELSE "returned"

\* one iteration of while (hasMore): the request is answered with n items
FetchPage ==
  /\ fetch.pc = "request"
  /\ fetch.hasMore
  /\ Len(fetch.requests) < MaxPages
  /\ \E n \in PageSizes :
       LET total == IF fetch.total = NoCount THEN fetch.serverCount ELSE fetch.total
           got == fetch.got + n
           more == HasMore(n, got, total)
       IN fetch' =
            IF TestModeStop(got)
              THEN [fetch EXCEPT !.pc = "returned", !.total = total,
                                 !.got = settings.testModeLimit,
                                 !.requests = Append(@, fetch.page),
                                 !.sizes = Append(@, n)]
              ELSE [fetch EXCEPT !.pc = AfterPage(more),
                                 !.total = total, !.got = got, !.hasMore = more,
                                 !.page = @ + 1,
                                 !.requests = Append(@, fetch.page),
                                 !.sizes = Append(@, n)]
  /\ FetchFrame

\* the request is answered with a status other than 200, or not at all: the
\* error is thrown again
FetchFail ==
  /\ fetch.pc = "request"
  /\ fetch.hasMore
  /\ Len(fetch.requests) < MaxPages
  /\ fetch' = [fetch EXCEPT !.pc = "failed", !.requests = Append(@, fetch.page)]
  /\ FetchFrame

\* the pause of 100 ms before the next request
FetchDelay ==
  /\ fetch.pc = "delay"
  /\ fetch' = [fetch EXCEPT !.pc = "request", !.delays = @ + 1]
  /\ FetchFrame

NextFetch == FetchPage \/ FetchFail \/ FetchDelay

SpecFetch == InitFetch /\ [][NextFetch]_vars

----------------------------------------------------------------------------
(* getCollectionPath, one step per iteration of its loop, on the collection
   maps the service can return: every collection names no parent or any
   collection id as its parent *)

PathIds == {10, 20, 30}
PathTitles == (10 :> <<"A">>) @@ (20 :> <<"B">>) @@ (30 :> <<"C">>)
\* parent?.$id: 0 stands for undefined, 40 for a collection the map does not hold
PathParents == {0, 40} \cup PathIds

PathMaps ==
  {[c \in PathIds |-> [title |-> PathTitles[c], parent |-> par[c]]] :
     par \in [PathIds -> PathParents]}

InitPath ==
  /\ settings = DefaultSettings
  /\ writeLag = 0
  /\ faults = 0
  /\ now = 0
  /\ remote = [id \in Ids |-> Absent]
  /\ folders = {}
  /\ files = NoFiles
  /\ pc = "forward"
  /\ collections \in PathMaps
  /\ bookmarks = <<>>
  /\ idx = 0
  /\ counts = NoCounts
  /\ syncedBack = 0
  /\ lastSyncTime = NoTime
  /\ passes = 1
  /\ envOps = 0
  /\ lastOp = NoOp
  /\ before = NoFiles
  /\ log = <<>>
  /\ fetch = NoFetch
  /\ running = 1
  /\ codec = NoCodec
  /\ \E c \in PathParents \ {0} :
       walk = [NoWalk EXCEPT !.pc = "loop", !.currentId = c]

PathFrame ==
  UNCHANGED <<settings, now, remote, folders, files, pc, collections, bookmarks, idx,
              counts, syncedBack, lastSyncTime, passes, envOps, lastOp, before, log,
              writeLag, faults, fetch, running, codec>>

\* one iteration of while (currentId !== undefined) that finds the collection
WalkStep ==
  /\ walk.pc = "loop"
  /\ walk.currentId # 0
  /\ walk.currentId \in DOMAIN collections
  /\ Len(walk.ids) < MaxWalk
  /\ walk' = [walk EXCEPT
                !.pathParts = <<SanitizeFileName(collections[walk.currentId].title, now)>> \o @,
                !.ids = <<walk.currentId>> \o @,
                !.currentId = collections[walk.currentId].parent]
  /\ PathFrame

\* the loop ends: currentId is undefined, or the map does not hold it (break)
WalkEnd ==
  /\ walk.pc = "loop"
  /\ walk.currentId = 0 \/ walk.currentId \notin DOMAIN collections
  /\ walk' = [walk EXCEPT !.pc = "returned"]
  /\ PathFrame

NextPath == WalkStep \/ WalkEnd

SpecPath == InitPath /\ [][NextPath]_vars

----------------------------------------------------------------------------
(* generateNoteContent as the text it writes, and the readers of the metadata
   block. A document is the sequence of its lines, a line a text. A key is one
   element of a text, as LastSyncedKey is; the words "raindrop", "bookmarks"
   and their capitalised forms are one element each. *)

TitleKey == "title"
UrlKey == "url"
RaindropIdKey == "raindrop_id"
CollectionKey == "collection"
TagsKey == "tags"
TypeKey == "type"
Dashes == <<"-", "-", "-">>
DefaultTag == <<"raindrop", "-", "bookmarks">>
NoMatch == <<"no match">>

\* String.prototype.toLowerCase and toUpperCase on the letters of the model
LowerOf ==
  ("A" :> "a") @@ ("I" :> "i") @@ ("U" :> "u") @@ ("X" :> "x")
    @@ ("Raindrop" :> "raindrop") @@ ("Bookmarks" :> "bookmarks")
UpperOf ==
  ("a" :> "A") @@ ("i" :> "I") @@ ("u" :> "U") @@ ("x" :> "X")
    @@ ("raindrop" :> "Raindrop") @@ ("bookmarks" :> "Bookmarks")
ToLowerCase(ch) == IF ch \in DOMAIN LowerOf THEN LowerOf[ch] ELSE ch
ToUpperCase(ch) == IF ch \in DOMAIN UpperOf THEN UpperOf[ch] ELSE ch

\* the characters /[^\w-]/ matches
NonWordChars == Whitespace \cup InvalidChars \cup YamlSpecial \cup {".", ",", "$"}

\* sanitizeTags, one tag:
\*   toLowerCase().trim().replace(/\s+/g, "-").replace(/[^\w-]/g, "")
SanitizeTag(tag) ==
  LET lower == [i \in 1..Len(tag) |-> ToLowerCase(tag[i])]
      collapsed == CollapseWhitespace(Trim(lower))
      hyphened == [i \in 1..Len(collapsed) |->
                     IF collapsed[i] \in Whitespace THEN "-" ELSE collapsed[i]]
  IN SelectSeq(hyphened, LAMBDA ch : ch \notin NonWordChars)

\* sanitizeTags: the tags that are left empty are dropped
SanitizeTags(tags) ==
  SelectSeq([i \in 1..Len(tags) |-> SanitizeTag(tags[i])], LAMBDA tag : tag # <<>>)

\* the default tag is not added
WithoutDefaultTag(obsidianTags) == obsidianTags

\* generateNoteContent: the default tag is put first unless the list holds it
WithDefaultTag(obsidianTags) ==
  IF \E i \in 1..Len(obsidianTags) : obsidianTags[i] = DefaultTag
    THEN obsidianTags
    ELSE <<DefaultTag>> \o obsidianTags

\* `${key}: ${value}`
KeyLine(key, value) == <<key, ":", " ">> \o value

\* generateNoteContent: the lines of the document down to its heading; t is
\* new Date()
GenerateDocument(b, collectionTitle, t) ==
  LET title == IF b.title # <<>> THEN b.title ELSE Untitled
      obsidianTags == WithDefaultTag(SanitizeTags(b.tags))
      tagsYaml == IF obsidianTags = <<>>
                    THEN <<<<TagsKey, ":", " ", "[", "]">>>>
                    ELSE <<<<TagsKey, ":">>>>
                           \o [i \in 1..Len(obsidianTags) |->
                                 <<" ", " ", "-", " ">> \o obsidianTags[i]]
  IN <<Dashes,
       KeyLine(TitleKey, EscapeYamlValue(title)),
       KeyLine(UrlKey, EscapeYamlValue(b.link)),
       KeyLine(RaindropIdKey, Dec(b.id)),
       KeyLine(CollectionKey, EscapeYamlValue(collectionTitle))>>
     \o tagsYaml
     \o <<KeyLine("created", <<"c">>),
          KeyLine(LastSyncedKey, Dec(t)),
          KeyLine(TypeKey, <<BookmarkMarker>>),
          KeyLine("domain", <<"Unknown">>),
          KeyLine("added", <<"c">>),
          Dashes,
          <<>>,
          <<"#", " ">> \o title>>

\* content.match(/^---\n([\s\S]*?)\n---/): the lines of the captured group
\* (one line at least), no line when there is no match
Frontmatter(doc) ==
  LET closing == {j \in 3..Len(doc) : Len(doc[j]) >= 3 /\ SubSeq(doc[j], 1, 3) = Dashes}
  IN IF Len(doc) >= 3 /\ doc[1] = Dashes /\ closing # {}
       THEN SubSeq(doc, 2, (CHOOSE j \in closing : \A i \in closing : j <= i) - 1)
       ELSE <<>>

\* the first place in a line where key is followed by ":", 0 when there is none
KeyPos(line, key) ==
  LET at == {k \in 1..(Len(line) - 1) : line[k] = key /\ line[k + 1] = ":"}
  IN IF at = {} THEN 0 ELSE CHOOSE k \in at : \A j \in at : k <= j

\* frontmatter.match(/key:\s*(.+)/)[1], as syncNotesToRaindrop and
\* createOrUpdateNote read last_synced: the first match in the block; \s* runs
\* over the end of the line when nothing but blanks follows the key
FieldOf(fm, key) ==
  LET lines == {i \in 1..Len(fm) : KeyPos(fm[i], key) # 0}
  IN IF fm = <<>> \/ lines = {} THEN NoMatch
     ELSE LET i == CHOOSE j \in lines : \A h \in lines : j <= h
              rest == TrimLeft(SubSeq(fm[i], KeyPos(fm[i], key) + 2, Len(fm[i])))
          IN IF rest # <<>> THEN rest
             ELSE IF i < Len(fm) /\ TrimLeft(fm[i + 1]) # <<>> THEN TrimLeft(fm[i + 1])
             ELSE NoMatch

DigitSet == {DigitChars[i] : i \in 1..10}
DigitValue(ch) == (CHOOSE i \in 1..10 : DigitChars[i] = ch) - 1

\* the digits a text starts with
RECURSIVE LeadingDigits(_)
LeadingDigits(text) ==
  IF text # <<>> /\ text[1] \in DigitSet
    THEN <<text[1]>> \o LeadingDigits(Tail(text))
    ELSE <<>>

\* parseInt of a text of digits
RECURSIVE ParseInt(_)
ParseInt(digits) ==
  IF digits = <<>> THEN 0
  ELSE 10 * ParseInt(SubSeq(digits, 1, Len(digits) - 1)) + DigitValue(digits[Len(digits)])

\* parseInt(frontmatter.match(/raindrop_id:\s*(\d+)/)[1]), 0 when there is no
\* match
ReadRaindropId(fm) ==
  LET value == FieldOf(fm, RaindropIdKey)
  IN IF value = NoMatch \/ LeadingDigits(value) = <<>> THEN 0
     ELSE ParseInt(LeadingDigits(value))

\* a line /  - .+/ matches at its start
IsTagLine(line) == Len(line) >= 5 /\ SubSeq(line, 1, 4) = <<" ", " ", "-", " ">>

\* the number of tag lines from line j on
RECURSIVE TagLines(_, _)
TagLines(fm, j) ==
  IF j <= Len(fm) /\ IsTagLine(fm[j]) THEN 1 + TagLines(fm, j + 1) ELSE 0

\* line.replace(/^\s*-\s*/, "").trim()
StripTagLine(line) ==
  LET t == TrimLeft(line)
  IN IF t # <<>> /\ t[1] = "-" THEN Trim(Tail(t)) ELSE Trim(line)

\* syncNotesToRaindrop: the tags of frontmatter.match(/tags:\n((?:  - .+\n?)*)/)
\* before they are converted
ReadTags(fm) ==
  LET heads == {i \in 1..Len(fm) :
                  KeyPos(fm[i], TagsKey) # 0 /\ KeyPos(fm[i], TagsKey) + 1 = Len(fm[i])}
  IN IF fm = <<>> \/ heads = {} THEN <<>>
     ELSE LET i == CHOOSE j \in heads : \A h \in heads : j <= h
              n == TagLines(fm, i + 1)
          IN SelectSeq([k \in 1..n |-> StripTagLine(fm[i + k])], LAMBDA tag : tag # <<>>)

\* convertTagToRaindropFormat: split("-"), the first letter of each word in
\* upper case, join(" ")
ConvertTagToRaindropFormat(tag) ==
  [i \in 1..Len(tag) |->
     IF tag[i] = "-" THEN " "
     ELSE IF i = 1 \/ tag[i - 1] = "-" THEN ToUpperCase(tag[i])
     ELSE tag[i]]

\* frontmatter.includes("type: raindrop-bookmark")
HasBookmarkMarker(fm) ==
  /\ fm # <<>>
  /\ \E i \in 1..Len(fm) : \E k \in 1..(Len(fm[i]) - 3) :
       SubSeq(fm[i], k, k + 3) = <<TypeKey, ":", " ", BookmarkMarker>>

\* the records and collection titles generateNoteContent is given
CodecTitles == {<<>>, <<"a", "b">>, <<"A", " ", "b">>, <<"a", ":", "b">>}
CodecLinks == {<<>>, <<"u", ".", "x">>, <<"u", ":", "x">>}
CodecCollections == {Unsorted, <<"A">>, <<"A", ":", "B">>}
CodecTags ==
  {<<>>,
   <<<<"u", "x">>>>,
   <<<<"A", "I", " ", "u", "x">>>>,
   <<<<"Raindrop", " ", "Bookmarks">>>>,
   <<<<"u", "x">>, DefaultTag>>,
   <<<<"!">>, <<"a">>>>}
CodecIds == {1, 12}

InitCodec ==
  /\ settings = DefaultSettings
  /\ writeLag = 0
  /\ faults = 0
  /\ now = 0
  /\ remote = [id \in Ids |-> Absent]
  /\ folders = {}
  /\ files = NoFiles
  /\ pc = "forward"
  /\ collections = NoCollections
  /\ bookmarks = <<>>
  /\ idx = 0
  /\ counts = NoCounts
  /\ syncedBack = 0
  /\ lastSyncTime = NoTime
  /\ passes = 1
  /\ envOps = 0
  /\ lastOp = NoOp
  /\ before = NoFiles
  /\ log = <<>>
  /\ fetch = NoFetch
  /\ running = 1
  /\ walk = NoWalk
  /\ \E id \in CodecIds, ti \in CodecTitles, li \in CodecLinks, ta \in CodecTags,
        co \in CodecCollections :
       codec = [NoCodec EXCEPT !.pc = "input",
                               !.b = [id |-> id, title |-> ti, link |-> li, tags |-> ta],
                               !.collectionTitle = co]

CodecFrame ==
  UNCHANGED <<settings, now, remote, folders, files, pc, collections, bookmarks, idx,
              counts, syncedBack, lastSyncTime, passes, envOps, lastOp, before, log,
              writeLag, faults, fetch, running, walk>>

\* generateNoteContent(bookmark, collectionTitle)
Encode ==
  /\ codec.pc = "input"
  /\ codec' = [codec EXCEPT !.pc = "encoded",
                            !.content = GenerateDocument(codec.b, codec.collectionTitle, now)]
  /\ CodecFrame

\* what syncNotesToRaindrop, findFileByRaindropId and undoSync read in the
\* metadata block of the document
Decode ==
  /\ codec.pc = "encoded"
  /\ LET fm == Frontmatter(codec.content)
     IN codec' = [codec EXCEPT
                    !.pc = "decoded",
                    !.read = [id |-> ReadRaindropId(fm),
                              lastSynced |-> IF FieldOf(fm, LastSyncedKey) = NoMatch
                                               THEN NoTime
                                               ELSE ParseDate(FieldOf(fm, LastSyncedKey)),
                              tags |-> ReadTags(fm),
                              remoteTags |-> [i \in 1..Len(ReadTags(fm)) |->
                                                ConvertTagToRaindropFormat(ReadTags(fm)[i])],
                              marker |-> HasBookmarkMarker(fm)]]
  /\ CodecFrame

NextCodec == Encode \/ Decode

SpecCodec == InitCodec /\ [][NextCodec]_vars

----------------------------------------------------------------------------
(* ensureUniqueFileName on its own, in a folder where the first k candidate
   names of a title are taken: by documents of the user, by documents of
   another record, and at most one of them by the record itself *)

NameBase == <<"a", "-", "b">>
NameDir == <<<<"A">>>>
\* how many candidate names are taken: none, a few, or all of them
TakenCounts == {0, 1, 2, 3, maxAttempts - 1}
\* the document of record id, as the forward pass wrote it
DocumentOf(id) ==
  [c |-> GenerateNoteContent([id |-> id, title |-> NameBase, coll |-> 10, note |-> <<>>],
                             <<"A">>, 0),
   mtime |-> 0]

\* the remote ids of the other records that have the title
OtherIds == 1000

\* the folder with k names taken: by documents of the user (others = 0) or by
\* the documents of k other records, and the j-th of them by record id when j
\* is not 0
TakenFolder(k, others, j, id) ==
  [p \in {[dir |-> NameDir, name |-> CandidateName(NameBase, i)] : i \in 1..k} |->
     IF j # 0 /\ p.name = CandidateName(NameBase, j) THEN DocumentOf(id)
     ELSE IF others = 0 THEN [c |-> PlainContent, mtime |-> 0]
     ELSE DocumentOf(others + (IF p.name = NameBase THEN 1
                               ELSE ParseInt(SubSeq(p.name, Len(NameBase) + 2, Len(p.name)))))]

InitNames ==
  /\ settings = DefaultSettings
  /\ writeLag = 0
  /\ faults = 0
  /\ now = 0
  /\ remote = [id \in Ids |-> Absent]
  /\ folders = EnsureFolderExists({}, NameDir)
  /\ pc = "forward"
  /\ collections = ServerCollections
  /\ idx = 0
  /\ counts = NoCounts
  /\ syncedBack = 0
  /\ lastSyncTime = NoTime
  /\ passes = 1
  /\ envOps = 0
  /\ lastOp = NoOp
  /\ before = NoFiles
  /\ log = <<>>
  /\ fetch = NoFetch
  /\ running = 1
  /\ walk = NoWalk
  /\ codec = NoCodec
  /\ \E id \in Ids, k \in TakenCounts, others \in {0, OtherIds}, j \in 0..3,
        ti \in {NameBase, <<"c">>} :
       /\ j <= k
       /\ files = TakenFolder(k, others, j, id)
       /\ bookmarks = <<[id |-> id, title |-> ti, coll |-> 10, note |-> <<>>]>>

NamesFrame ==
  UNCHANGED <<settings, now, remote, folders, files, pc, collections, bookmarks, idx,
              counts, syncedBack, lastSyncTime, passes, envOps, before, log,
              writeLag, faults, fetch, running, walk, codec>>

\* createOrUpdateNote up to the file path: sanitizeFileName and
\* ensureUniqueFileName
ResolveName ==
  /\ lastOp.op = "none"
  /\ Len(bookmarks) = 1
  /\ LET b == bookmarks[1]
         folderPath == TargetFolder(b, collections, now)
         fileName == EnsureUniqueFileName(files, {}, folderPath,
                                          SanitizeFileName(b.title, now), b.id)
     IN lastOp' = [NoOp EXCEPT !.op = "resolve", !.id = b.id,
                               !.target = [dir |-> folderPath, name |-> fileName]]
  /\ NamesFrame

NextNames == ResolveName

SpecNames == InitNames /\ [][NextNames]_vars

----------------------------------------------------------------------------
(* The folder createOrUpdateNote resolves for a record, on the collection maps
   without a cycle: every collection names no parent, a collection the map
   does not hold, or another collection; one of them may be titled Unsorted *)

\* the parent of collection c in map m, 0 when m does not hold c
ParentIn(m, c) == IF c \in DOMAIN m THEN m[c].parent ELSE 0

\* no walk up the parents comes back to a collection
Acyclic(m) ==
  \A c \in DOMAIN m : ParentIn(m, ParentIn(m, ParentIn(m, c))) \notin DOMAIN m

FolderMaps ==
  {[c \in PathIds |-> [title |-> IF c = 30 THEN last ELSE PathTitles[c], parent |-> par[c]]] :
     par \in {q \in [PathIds -> PathParents] : Acyclic([c \in PathIds |-> [parent |-> q[c]]])},
     last \in {PathTitles[30], Unsorted}}

FolderSettings == {DefaultSettings, [DefaultSettings EXCEPT !.useCollectionFolders = FALSE]}

InitFolder ==
  /\ settings \in FolderSettings
  /\ writeLag = 0
  /\ faults = 0
  /\ now = 0
  /\ remote = [id \in Ids |-> Absent]
  /\ folders = {}
  /\ files = NoFiles
  /\ pc = "forward"
  /\ collections \in FolderMaps
  /\ \E co \in PathParents :
       bookmarks = <<[id |-> 1, title |-> <<"c">>, coll |-> co, note |-> <<>>]>>
  /\ idx = 0
  /\ counts = NoCounts
  /\ syncedBack = 0
  /\ lastSyncTime = NoTime
  /\ passes = 1
  /\ envOps = 0
  /\ lastOp = NoOp
  /\ before = NoFiles
  /\ log = <<>>
  /\ fetch = NoFetch
  /\ running = 1
  /\ walk = NoWalk
  /\ codec = NoCodec

\* createOrUpdateNote up to ensureFolderExists: collectionTitle and folderPath
ResolveFolder ==
  /\ lastOp.op = "none"
  /\ Len(bookmarks) = 1
  /\ lastOp' = [NoOp EXCEPT !.op = "folder", !.id = bookmarks[1].id,
                            !.target = [dir |-> TargetFolder(bookmarks[1], collections, now),
                                        name |-> <<>>]]
  /\ NamesFrame

NextFolder == ResolveFolder

SpecFolder == InitFolder /\ [][NextFolder]_vars

----------------------------------------------------------------------------
(* cleanupEmptyFolders on its own, on trees of folders up to three levels
   below the resource folder, some of them holding a document *)

TreeDirs ==
  {<<<<"A">>>>, <<<<"A">>, <<"A">>>>, <<<<"A">>, <<"A">>, <<"A">>>>, <<<<"A">>, <<"B">>>>,
   <<<<"B">>>>, <<<<"B">>, <<"A">>>>}

\* the trees: with a folder they hold the folders above it
Trees ==
  {{Root} \cup t : t \in {u \in SUBSET TreeDirs :
                            \A g \in u : \A k \in 1..(Len(g) - 1) : SubSeq(g, 1, k) \in u}}

\* one document in each folder of s
DocumentsIn(s) ==
  [p \in {[dir |-> g, name |-> <<"x">>] : g \in s} |-> [c |-> PlainContent, mtime |-> 0]]

InitTree ==
  /\ settings = DefaultSettings
  /\ writeLag = 0
  /\ faults = 0
  /\ now = 0
  /\ remote = [id \in Ids |-> Absent]
  /\ folders \in Trees
  /\ \E s \in SUBSET folders : files = DocumentsIn(s)
  /\ pc = "cleanup"
  /\ collections = NoCollections
  /\ bookmarks = <<>>
  /\ idx = 0
  /\ counts = NoCounts
  /\ syncedBack = 0
  /\ lastSyncTime = NoTime
  /\ passes = 1
  /\ envOps = 0
  /\ lastOp = NoOp
  /\ before = NoFiles
  /\ log = <<>>
  /\ fetch = NoFetch
  /\ running = 1
  /\ walk = NoWalk
  /\ codec = NoCodec

\* cleanupEmptyFolders(resource folder), every delete succeeding
CleanupTree ==
  /\ lastOp.op = "none"
  /\ folders' = CleanupEmptyFolders(folders, files, Root, NoFault)
  /\ lastOp' = [NoOp EXCEPT !.op = "cleanupFolders", !.removed = folders \ folders']
  /\ UNCHANGED <<settings, now, remote, files, pc, collections, bookmarks, idx,
                 counts, syncedBack, lastSyncTime, passes, envOps, before, log,
                 writeLag, faults, fetch, running, walk, codec>>

NextTree == CleanupTree

SpecTree == InitTree /\ [][NextTree]_vars

----------------------------------------------------------------------------
(* The forward pass, the cleanup and the report of a pass whose record meets
   a folder where candidate names of its title are taken *)

NextFullFolder == ProcessBookmark \/ Cleanup \/ UpdateSyncStatusNote

SpecFullFolder == InitNames /\ [][NextFullFolder]_vars

----------------------------------------------------------------------------
(* undoSync, the command "Undo Last Sync (Delete All Synced Files)" *)

\* every document with a metadata block counts as synced
IsSyncedFileAnyBlock(c) == HasFrontmatter(c)

\* undoSync: frontmatter.includes("type: raindrop-bookmark")
IsSyncedFile(c) == HasFrontmatter(c) /\ c.marker = BookmarkMarker

\* undoSync: the documents that are deleted; a document whose read or delete
\* throws, or that is gone when its turn comes, is passed over
SyncedFilesDeleted(fs, fault) ==
  {p \in AllFiles(fs) :
     /\ ~(fault.kind = "read" /\ fault.at = p)
     /\ IsSyncedFile(fs[p].c)
     /\ ~(fault.kind = "delete" /\ fault.at = p)}

\* undoSync: [files, folders, found] after the command, found telling whether
\* the resource folder was there
UndoSyncResult(fs, flds, fault) ==
  IF Root \notin flds THEN [files |-> fs, folders |-> flds, found |-> FALSE]
  ELSE LET kept == [p \in AllFiles(fs) \ SyncedFilesDeleted(fs, fault) |-> fs[p]]
       IN [files |-> kept, folders |-> CleanupEmptyFolders(flds, kept, Root, fault),
           found |-> TRUE]

UndoFaults(fs, flds) ==
  Allowed({NoFault}
    \cup {[kind |-> k, at |-> p] : k \in {"read", "delete"},
                                   p \in {q \in DOMAIN fs : IsSyncedFile(fs[q].c)}}
    \cup {[kind |-> "rmdir", at |-> [dir |-> g, name |-> <<>>]] : g \in flds \ {Root}})

\* undoSync(); the command is there whatever syncBookmarks is doing
UndoSync ==
  /\ \E fault \in UndoFaults(files, folders) :
       LET r == UndoSyncResult(files, folders, fault)
       IN /\ Felt(fault, r, {UndoSyncResult(files, folders, NoFault)})
          /\ files' = r.files
          /\ folders' = r.folders
          /\ lastSyncTime' = IF r.found THEN NoTime ELSE lastSyncTime
          /\ faults' = Count(fault)
          /\ lastOp' = [NoOp EXCEPT !.op = "undo", !.fault = fault.kind,
                                    !.result = IF r.found THEN "deleted" ELSE "notFound",
                                    !.removed = folders \ r.folders]
  /\ UNCHANGED <<running, walk, codec, settings, now, remote, pc, collections, bookmarks,
                 idx, counts, syncedBack, passes, envOps, before, log, writeLag, fetch>>

\* the user deletes the resource folder with all it holds
UserDeleteFolder ==
  /\ BetweenPasses
  /\ Root \in folders
  /\ files' = NoFiles
  /\ folders' = {}
  /\ EnvFrame
  /\ UNCHANGED <<now, remote>>

\* the passes, the undo command and the user who removes the folder
NextUndo ==
  \/ StartSync \/ FetchCollections \/ FetchBookmarks
  \/ ProcessBookmark \/ Cleanup \/ UpdateSyncStatusNote
  \/ UndoSync \/ UserDeleteFolder

InitUndo == InitWith({DefaultSettings}, MaxEnvOps, MaxFaults)

SpecUndo == InitUndo /\ [][NextUndo]_vars

----------------------------------------------------------------------------
(* The scans of a vault that earlier passes and the user have filled *)

\* the document of record id, written at time 1 under the name given; edited
\* tells whether the user has typed an annotation since
ScanDocument(id, title, collectionTitle, edited) ==
  [c |-> [GenerateNoteContent([id |-> id, title |-> title, coll |-> 10, note |-> <<>>],
                              collectionTitle, 1)
            EXCEPT !.notes = IF edited THEN <<"\n", "\n", "k">> ELSE @],
   mtime |-> IF edited THEN 3 ELSE 1]

\* the documents of the records 1 and 2, which the service holds
OwnDocuments ==
  {NoFiles} \cup
  {([dir |-> <<<<"A">>>>, name |-> <<"a", "-", "b">>]
      :> ScanDocument(1, <<"a", "-", "b">>, <<"A">>, e)) : e \in BOOLEAN} \cup
  \* the document and a copy the user has made of it
  {([dir |-> <<<<"A">>>>, name |-> <<"a", "-", "b">>]
      :> ScanDocument(1, <<"a", "-", "b">>, <<"A">>, FALSE))
   @@ ([dir |-> <<<<"A">>, <<"B">>>>, name |-> <<"a", "-", "b">>]
      :> ScanDocument(1, <<"a", "-", "b">>, <<"A">>, FALSE))}
\* ... and of record 2
SecondDocuments ==
  {NoFiles} \cup
  {([dir |-> <<<<"A">>>>, name |-> <<"a", "-", "b", "-", "2">>]
      :> ScanDocument(2, <<"a", "-", "b">>, <<"A">>, e)) : e \in BOOLEAN}

\* the documents of the records 3 and 4, which the service holds no longer
GoneDocuments ==
  {NoFiles,
   [dir |-> <<<<"A">>, <<"B">>>>, name |-> <<"c">>] :> ScanDocument(3, <<"c">>, <<"B">>, FALSE)}
LastDocuments ==
  {NoFiles,
   [dir |-> <<<<"A">>, <<"B">>>>, name |-> <<"d">>] :> ScanDocument(4, <<"d">>, <<"B">>, FALSE)}

\* a document of the user and the status document
OtherDocuments ==
  ([dir |-> <<<<"A">>>>, name |-> <<"p">>] :> [c |-> PlainContent, mtime |-> 0])
    @@ (StatusPath :> [c |-> StatusContent, mtime |-> 1])

InitScan ==
  /\ settings = DefaultSettings
  /\ writeLag = 0
  /\ faults = 1
  /\ now = 4
  /\ remote = [id \in Ids |-> [present |-> TRUE, title |-> <<"a", "-", "b">>, coll |-> 10,
                               note |-> <<>>]]
  /\ \E a \in OwnDocuments, b \in SecondDocuments, c \in GoneDocuments, d \in LastDocuments :
       files = a @@ b @@ c @@ d @@ OtherDocuments
  /\ folders = EnsureFolderExists({}, <<<<"A">>, <<"B">>>>)
  /\ pc = "idle"
  /\ collections = NoCollections
  /\ bookmarks = <<>>
  /\ idx = 0
  /\ counts = NoCounts
  /\ syncedBack = 0
  /\ lastSyncTime = NoTime
  /\ passes = MaxPasses - 1
  /\ envOps = 0
  /\ lastOp = NoOp
  /\ before = NoFiles
  /\ log = <<>>
  /\ fetch = NoFetch
  /\ running = 0
  /\ walk = NoWalk
  /\ codec = NoCodec

NextScan ==
  \/ StartSync \/ FetchCollections \/ FetchBookmarks
  \/ ProcessBookmark \/ Cleanup \/ UpdateSyncStatusNote
  \/ UndoSync

SpecScan == InitScan /\ [][NextScan]_vars

----------------------------------------------------------------------------
(* Passes over records that carry an annotation *)

\* the records the service holds at the start, with an annotation or without
NotedRemotes ==
  {r \in [Ids -> {Absent} \cup
                 {[present |-> TRUE, title |-> <<"a", "-", "b">>, coll |-> 10, note |-> n] :
                    n \in NotesOf(1)}] :
     r[2].present}

\* the annotation the user of the service types for a record
NewNote == <<"s">>

\* the service changes the annotation of a record
RemoteNote ==
  /\ BetweenPasses
  /\ \E id \in Ids :
       /\ remote[id].present
       /\ remote[id].note # NewNote
       /\ remote' = [remote EXCEPT ![id].note = NewNote]
  /\ EnvFrame
  /\ UNCHANGED <<now, folders, files>>

NextNoted == Next \/ RemoteNote

InitNoted == InitOn(MainSettings, MaxEnvOps, MaxFaults, NotedRemotes)

SpecNoted == InitNoted /\ [][NextNoted]_vars

----------------------------------------------------------------------------
(* Properties of the reconciliation engine *)

\* text occurs in s
Occurs(text, s) ==
  \E i \in 1..(Len(s) - Len(text) + 1) : SubSeq(s, i, i + Len(text) - 1) = text

\* the bookmark documents of record id
DocsOf(fs, id) == {p \in DOMAIN fs : RaindropIdOf(fs[p].c) = id}

\* the annotations that were edited since the last sync, as [id, notes]
EditedAnnotations(fs) ==
  {[id |-> RaindropIdOf(fs[p].c), notes |-> NotesSection(fs[p].c)] :
     p \in {q \in DOMAIN fs : /\ RaindropIdOf(fs[q].c) # 0
                              /\ LocalEditNewer(fs[q])
                              /\ NotesSection(fs[q].c) # <<>>}}

\* the step is one iteration of the loop over the fetched records
ProcessStep == pc = "forward" /\ idx' = idx + 1

\* C1: after a pass, the annotation of every document that was modified after
\* its last_synced time at the start of the pass, and whose record was fetched,
\* is still in a document of that record or in the annotation of the record.
\* Stated for the annotations without a "$", which String.replace copies as
\* they are (C3 has the others).
C1_AnnotationNeverLost ==
  pc = "done" =>
    \A e \in EditedAnnotations(before) :
      (e.id \in SyncedRaindropIds /\ ~Contains(e.notes, "$")) =>
        \/ \E p \in DocsOf(files, e.id) : Occurs(e.notes, NotesSection(files[p].c))
        \/ Occurs(e.notes, remote[e.id].note)

KeptText == <<"k">>

\* C2: createOrUpdateNote for a record whose document was modified after its
\* last_synced time, has the annotation KeptText and another title than the
\* record, leaves a document of the record with the annotation KeptText and
\* the title of the record.
C2_ConflictPreservedAcrossTitleChange ==
  [][ProcessStep =>
       LET b == bookmarks[idx + 1]
       IN \A p \in DocsOf(files, b.id) :
            (/\ LocalEditNewer(files[p])
             /\ NotesSection(files[p].c) = KeptText
             /\ files[p].c.title # EscapeYamlValue(b.title))
            => \E q \in DocsOf(files', b.id) :
                 /\ NotesSection(files'[q].c) = KeptText
                 /\ files'[q].c.title = EscapeYamlValue(b.title)]_vars

\* C3: when the document at the resolved target path has a last_synced time
\* and was modified after it, createOrUpdateNote reports "updated" and writes
\* there the annotation the document had with the title and the collection of
\* the record.
C3_ConflictRule ==
  [][ProcessStep =>
       LET b == bookmarks[idx + 1]
           target == lastOp'.target
       IN (/\ target \in DOMAIN files
           /\ LocalEditNewer(files[target])
           /\ lastOp'.result # "failed")
          => /\ lastOp'.result = "updated"
             /\ target \in DOMAIN files'
             /\ NotesSection(files'[target].c) = NotesSection(files[target].c)
             /\ files'[target].c.title = EscapeYamlValue(b.title)
             /\ files'[target].c.coll = EscapeYamlValue(CollectionTitleOf(b, collections))]_vars

\* C4: the second of two passes with no change by the user or the service
\* between them creates and updates nothing: every record is skipped.
C4_SecondRunSkipsAll ==
  (pc = "done" /\ passes = 2 /\ envOps = MaxEnvOps) =>
    /\ counts.created = 0
    /\ counts.updated = 0
    /\ counts.skipped = Len(bookmarks)

\* the entries of the log for the iterations of the loop over the records
ForwardLog == SelectSeq(log, LAMBDA e : e.op = "forward")

\* the record was found in another folder under the same file name and was
\* written to the target path
Relocated(e) ==
  /\ e.result # "failed"
  /\ e.found # NoFile
  /\ e.found.dir # e.target.dir
  /\ e.found.name = e.target.name

\* C5 as stated: after the pass there is no document at the old path and a
\* document of the record at the new path.
C5_Relocation ==
  pc = "done" =>
    \A i \in 1..Len(ForwardLog) :
      LET e == ForwardLog[i]
      IN Relocated(e) =>
           /\ e.found \notin DOMAIN files
           /\ e.target \in DOMAIN files
           /\ RaindropIdOf(files[e.target].c) = e.id

\* C5: after the pass there is no document of the record at the old path (a
\* document of another record may have taken it) and a document of the record
\* at the new path.
C5_RelocationOfTheRecord ==
  pc = "done" =>
    \A i \in 1..Len(ForwardLog) :
      LET e == ForwardLog[i]
      IN Relocated(e) =>
           /\ e.found \in DOMAIN files => RaindropIdOf(files[e.found].c) # e.id
           /\ e.target \in DOMAIN files
           /\ RaindropIdOf(files[e.target].c) = e.id

C5_Witness ==
  /\ pc = "done"
  /\ \E i \in 1..Len(ForwardLog) :
       /\ Relocated(ForwardLog[i])
       /\ ForwardLog[i].found \in DOMAIN before
       /\ ForwardLog[i].found \notin DOMAIN files
       /\ ForwardLog[i].target \in DOMAIN files

\* C6: no two bookmark documents carry the same remote id.
C6_OneDocumentPerId ==
  \A p, q \in DOMAIN files :
    (RaindropIdOf(files[p].c) # 0 /\ RaindropIdOf(files[p].c) = RaindropIdOf(files[q].c))
      => p = q

\* the entry of the log for cleanupDeletedBookmarks
CleanupLog == SelectSeq(log, LAMBDA e : e.op = "cleanup")

\* C7: after a pass whose cleanup met no failing read, delete or folder
\* removal, no bookmark document carries a remote id outside the fetched set
\* and no folder below the resource folder is empty.
C7_OrphanDeletion ==
  (pc = "done" /\ Len(CleanupLog) = 1 /\ CleanupLog[1].fault = "none") =>
    /\ \A p \in DOMAIN files :
         RaindropIdOf(files[p].c) # 0 => RaindropIdOf(files[p].c) \in SyncedRaindropIds
    /\ \A g \in folders \ {Root} : ~IsEmptyFolder(folders, files, g)

C7_Witness ==
  /\ pc = "done"
  /\ Len(CleanupLog) = 1
  /\ CleanupLog[1].fault = "none"
  /\ \E p \in DOMAIN before :
       /\ RaindropIdOf(before[p].c) # 0
       /\ RaindropIdOf(before[p].c) \notin SyncedRaindropIds
       /\ p \notin DOMAIN files
       /\ p.dir \notin folders

\* C8: cleanupDeletedBookmarks deletes a bookmark document only when the
\* service no longer holds its record.
C8_CleanupDeletesOnlyVanished ==
  [][pc = "cleanup" =>
       \A p \in DOMAIN files :
         (p \notin DOMAIN files' /\ RaindropIdOf(files[p].c) # 0)
           => ~remote[RaindropIdOf(files[p].c)].present]_vars

\* the fetched record with remote id id
Fetched(id) == bookmarks[CHOOSE i \in 1..Len(bookmarks) : bookmarks[i].id = id]

\* the k-th file name ensureUniqueFileName tries for a title
Candidate(base, k) == IF k = 1 THEN base ELSE base \o <<"-">> \o Dec(k)

\* the document p was written for the title and the collection record b has now
WrittenFor(fs, p, b) ==
  /\ p \in DOMAIN fs
  /\ fs[p].c.title = EscapeYamlValue(b.title)
  /\ fs[p].c.coll = EscapeYamlValue(CollectionTitleOf(b, collections))

\* the record of entry e is unchanged since its document e.found was written
Unchanged(e) ==
  /\ e.result # "failed"
  /\ e.found # NoFile
  /\ e.found.dir = e.target.dir
  /\ WrittenFor(before, e.found, Fetched(e.id))

\* another unchanged record has the same sanitized title in the same folder
Colliding(e) ==
  \E j \in 1..Len(bookmarks) :
    /\ bookmarks[j].id # e.id
    /\ SanitizeFileName(bookmarks[j].title, now) = SanitizeFileName(Fetched(e.id).title, now)
    /\ TargetFolder(bookmarks[j], collections, now) = e.target.dir
    /\ \E p \in DocsOf(before, bookmarks[j].id) :
         p.dir = e.target.dir /\ WrittenFor(before, p, bookmarks[j])

\* the record keeps its file: not renamed, deleted or recreated
Stable(e) ==
  /\ e.target = e.found
  /\ e.result \in {"updated", "skipped"}
  /\ e.found \in DOMAIN files

\* two records with the same sanitized title in the same folder are written
\* to two file names
DistinctNames ==
  pc = "done" =>
    \A i, j \in 1..Len(ForwardLog) :
      LET e == ForwardLog[i]
          f == ForwardLog[j]
      IN (/\ i # j
          /\ e.result # "failed" /\ f.result # "failed"
          /\ e.target.dir = f.target.dir
          /\ SanitizeFileName(Fetched(e.id).title, now)
               = SanitizeFileName(Fetched(f.id).title, now))
         => /\ e.target # f.target
            /\ e.target \in DOMAIN files /\ RaindropIdOf(files[e.target].c) = e.id
            /\ f.target \in DOMAIN files /\ RaindropIdOf(files[f.target].c) = f.id

\* C9 as stated: two records with the same sanitized title in the same folder
\* are written to two file names, and in a later pass with both unchanged each
\* keeps the file it holds.
C9_CollisionStable ==
  /\ DistinctNames
  /\ (lastOp.op = "forward" /\ Unchanged(lastOp) /\ Colliding(lastOp)) => Stable(lastOp)

\* the number of items of the first j answered pages
RECURSIVE Sum(_, _)
Sum(sizes, j) == IF j = 0 THEN 0 ELSE Sum(sizes, j - 1) + sizes[j]

\* answered page j is not full or brings the running total to the reported count
StopAt(j) ==
  \/ fetch.sizes[j] # perPage
  \/ Sum(fetch.sizes, j) >= fetch.serverCount

\* the test-mode limit is reached by the pages answered so far
LimitReached ==
  settings.testMode /\ Sum(fetch.sizes, Len(fetch.sizes)) >= settings.testModeLimit

\* pages 0, 1, 2, ... are requested in this order, and none is requested after
\* a page that is not full or that reaches the reported count
PagesInOrder ==
  /\ \A i \in 1..Len(fetch.requests) : fetch.requests[i] = i - 1
  /\ \A j \in 1..(Len(fetch.sizes) - 1) : ~StopAt(j)
  /\ fetch.pc = "delay" => ~StopAt(Len(fetch.sizes))

FirstTwoFull ==
  /\ fetch.serverCount = 127
  /\ Len(fetch.sizes) >= 2
  /\ fetch.sizes[1] = perPage
  /\ fetch.sizes[2] = perPage

FailedEntries == {i \in 1..Len(ForwardLog) : ForwardLog[i].result = "failed"}

\* C11: when createOrUpdateNote throws for a record, the record is counted as
\* failed with its id kept, every fetched record is still processed in the
\* order fetched, and the cleanup and the report follow.
C11_FailureIsolation ==
  pc = "done" =>
    /\ Len(ForwardLog) = Len(bookmarks)
    /\ \A i \in 1..Len(ForwardLog) : ForwardLog[i].id = bookmarks[i].id
    /\ counts.failed = Cardinality(FailedEntries)
    /\ counts.created + counts.updated + counts.skipped + counts.failed = Len(bookmarks)
    /\ Len(CleanupLog) = 1
    /\ log[Len(log)].op = "status"

C11_Witness ==
  /\ pc = "done"
  /\ Len(bookmarks) = 2
  /\ ForwardLog[1].result = "failed"
  /\ ForwardLog[2].result \in {"created", "updated"}
  /\ counts.failed = 1
  /\ log[Len(log)].op = "status"

\* the place of a phase in one pass
Rank(e) ==
  CASE e.op \in {"reverse", "start"} -> 0
    [] e.op = "collections" -> 1
    [] e.op = "fetch" -> 2
    [] e.op = "forward" -> 3
    [] e.op = "cleanup" -> 4
    [] OTHER -> 5

\* the phases of the pass so far are in order
LogOrder ==
  \A i \in 1..Len(log) :
    /\ (i = 1) <=> (Rank(log[i]) = 0)
    /\ (log[i].op = "reverse") <=> (i = 1 /\ settings.bidirectionalSync)
    /\ \A j \in (i + 1)..Len(log) :
         \/ Rank(log[i]) < Rank(log[j])
         \/ log[i].op = "forward" /\ log[j].op = "forward"
    /\ (log[i].op = "fetch" /\ settings.useCollectionFolders)
         => \E j \in 1..(i - 1) : log[j].op = "collections"
    /\ log[i].op \in {"forward", "cleanup"}
         => \E j \in 1..(i - 1) : log[j].op = "fetch" /\ log[j].fault = "none"
    /\ log[i].op = "cleanup" => Len(ForwardLog) = Len(bookmarks)
    /\ log[i].op = "status"
         => i = Len(log) /\ \E j \in 1..(i - 1) : log[j].op = "cleanup"

\* what a step of the pass changes belongs to its phase
PhaseEffects ==
  /\ remote' # remote => lastOp'.op \in {"env", "reverse"}
  /\ files' # files => lastOp'.op \in {"env", "reverse", "forward", "cleanup", "status"}
  /\ bookmarks' # bookmarks => lastOp'.op \in {"env", "reverse", "start", "fetch"}
  /\ lastOp'.op \in {"reverse", "start"} => log' = <<lastOp'>>
  /\ lastOp'.op \in {"collections", "fetch", "forward", "cleanup", "status"}
       => log' = Append(log, lastOp')

\* C12: in one pass the pushes of the reverse pass come first, then the
\* collections fetch, then the record fetch, then the forward pass over every
\* fetched record, then the orphan cleanup, and the status report last.
C12_PhaseOrder == []LogOrder /\ [][PhaseEffects]_vars

C12_Witness ==
  /\ pc = "done"
  /\ log[1].op = "reverse"
  /\ syncedBack >= 1
  /\ Len(ForwardLog) = 2
  /\ log[Len(log)].op = "status"

\* the record fetch of the pass failed
Aborted ==
  /\ log # <<>>
  /\ log[Len(log)].op = "fetch"
  /\ log[Len(log)].fault = "fetch"

\* the failing fetch changes nothing, and no step of the same pass follows it
AbortEffects ==
  /\ (Aborted' /\ ~Aborted)
       => UNCHANGED <<files, folders, remote, lastSyncTime, bookmarks, counts>>
  /\ Aborted => lastOp'.op \in {"env", "reverse", "start"}

\* C13: when a request of the record fetch fails, the pass ends there: the
\* forward pass writes, relocates and deletes nothing, no orphan is deleted
\* and the status document is not written.
C13_FetchFailureAborts == [][AbortEffects]_vars

C13_Witness ==
  /\ Aborted
  /\ pc = "idle"
  /\ \E p \in DOMAIN files : RaindropIdOf(files[p].c) # 0

\* the collections fetch of the pass failed
CollectionsFailed ==
  \E i \in 1..Len(log) : log[i].op = "collections" /\ log[i].fault = "fetch"

\* C14: when the collections fetch fails, the pass ends there: no record is
\* fetched and the forward pass and the cleanup do not run.
C14_CollectionsFailureAborts ==
  CollectionsFailed =>
    /\ bookmarks = <<>>
    /\ Len(ForwardLog) = 0
    /\ Len(CleanupLog) = 0
    /\ \A p \in DOMAIN before :
         RaindropIdOf(before[p].c) # 0 => p \in DOMAIN files

\* C15: at most one call of syncBookmarks is in flight at any time.
C15_OnePassAtATime == running <= 1

\* C16: the walk of getCollectionPath visits no collection twice, so the path
\* holds each collection at most once and the walk ends.
C16_PathVisitsOnce ==
  \A i, j \in 1..Len(walk.ids) : i # j => walk.ids[i] # walk.ids[j]

\* without a token no step asks the service for anything or touches the vault
NoTokenEffects ==
  ~settings.apiToken =>
    /\ UNCHANGED <<remote, files, folders, lastSyncTime, collections, bookmarks, log,
                   passes, running>>
    /\ lastOp'.op = "noToken"

\* C17: with an empty token syncBookmarks issues no request, creates, modifies
\* and deletes no document or folder, and leaves the last-sync time as it is.
C17_NoTokenNoAttempt == [][NoTokenEffects]_vars

C17_Witness ==
  /\ ~settings.apiToken
  /\ lastOp.op = "noToken"
  /\ files # NoFiles
  /\ lastSyncTime = NoTime

\* the document has a remote id, was modified after its last-synced timestamp
\* (epoch when it has none) and has an annotation that is not blank
Eligible(f) ==
  /\ f.c.fm
  /\ f.c.id # 0
  /\ f.mtime > (IF f.c.ls = NoTime THEN 0 ELSE f.c.ls)
  /\ f.c.hasNotes
  /\ Trim(DropNewlines(f.c.notes)) # <<>>

\* C18: the reverse pass sends an update only for a document that has a remote
\* id, was modified after its last-synced timestamp and has an annotation;
\* every other document gets no request and is left as it was.
C18_PushOnlyEdited ==
  lastOp.op = "reverse" =>
    \A p \in DOMAIN before :
      /\ p \in lastOp.requests => Eligible(before[p])
      /\ ~Eligible(before[p]) => (p \in DOMAIN files /\ files[p] = before[p])

\* the documents whose push went through
Pushed == lastOp.requests \ lastOp.refused

\* C19: after a successful push only the last-synced field of the document
\* has changed and the document is counted; after a failed push the document
\* is as it was and is not counted; every document that qualifies is examined.
C19_PushOutcome ==
  (lastOp.op = "reverse" /\ lastOp.fault \in {"none", "push"}) =>
    /\ \A p \in Pushed :
         /\ p \in DOMAIN files
         /\ files[p].c = [before[p].c EXCEPT !.ls = files[p].c.ls]
         /\ before[p].c.ls # NoTime => files[p].c.ls = now
    /\ \A p \in lastOp.refused : p \in DOMAIN files /\ files[p] = before[p]
    /\ syncedBack = Cardinality(Pushed)
    /\ \A p \in DOMAIN before : Eligible(before[p]) => p \in lastOp.requests

\* C20: a push that failed in the reverse pass is counted in the failed count
\* of the run's summary and status document.
C20_FailedPushCounted ==
  (pc = "done" /\ log[1].op = "reverse") => counts.failed >= Cardinality(log[1].refused)

\* the counts of records the service may hold
HeldCounts == ServerCounts \ {NoCount}

Min(a, b) == IF a < b THEN a ELSE b

\* the size of the j-th page of a service that holds T records
HonestSize(T, j) ==
  IF T - perPage * (j - 1) <= 0 THEN 0 ELSE Min(perPage, T - perPage * (j - 1))

\* the answers so far are those of a service that holds T records and reports
\* their number or no number
Holds(T) ==
  /\ fetch.pc # "off"
  /\ fetch.serverCount \in {T, NoCount}
  /\ \A j \in 1..Len(fetch.sizes) : fetch.sizes[j] = HonestSize(T, j)

\* the records 1..n in fetch order
FirstRecords(n) == [i \in 1..n |-> i]

\* C21: in test mode with limit L, against a service that holds T records, the
\* fetch returns min(L, T) records, the first ones in fetch order, and sends no
\* request once the running total has reached L.
C21_TestModeCap ==
  \A T \in HeldCounts :
    (settings.testMode /\ Holds(T)) =>
      /\ \A j \in 1..(Len(fetch.sizes) - 1) : Sum(fetch.sizes, j) < settings.testModeLimit
      /\ fetch.pc \in {"delay", "request"}
           => Sum(fetch.sizes, Len(fetch.sizes)) < settings.testModeLimit
      /\ fetch.pc = "returned"
           => /\ fetch.got = Min(settings.testModeLimit, T)
              /\ FetchAllBookmarks(FirstRecords(T))
                   = FirstRecords(Min(settings.testModeLimit, T))

C21_Witness ==
  /\ fetch.pc = "returned"
  /\ settings.testMode
  /\ settings.testModeLimit = 120
  /\ Holds(127)
  /\ fetch.sizes = <<perPage, perPage, 27>>
  /\ fetch.got = 120

\* createdCount + updatedCount + skippedCount + failedCount
CountSum(c) == c.created + c.updated + c.skipped + c.failed

\* the pass is past the loop over the fetched records
LoopDone == pc \in {"cleanup", "status", "done"}

\* the four counters account for the records processed so far, and for every
\* fetched record once the loop has ended
Accounted ==
  /\ CountSum(counts) = idx
  /\ LoopDone => CountSum(counts) = Len(bookmarks)

\* one iteration of the loop adds one to exactly one of the four counters
OneCounterMore ==
  ProcessStep =>
    \E k \in {"created", "updated", "skipped", "failed"} :
      counts' = [counts EXCEPT ![k] = @ + 1]

\* C22: at the end of a completed pass the four counters add up to the number
\* of fetched records, each record having added one to exactly one counter, so
\* the count-mismatch warning is not raised.
C22_Accounting == []Accounted /\ [][OneCounterMore]_vars

C22_Witness ==
  /\ pc = "done"
  /\ Len(bookmarks) = 2
  /\ counts.updated = 1
  /\ counts.failed = 1
  /\ CountSum(counts) = 2

\* the value is written as it is: escapeYamlValue adds no quotes
Plain(value) == EscapeYamlValue(value) = value

\* the elements of a sequence
Range(seq) == {seq[i] : i \in 1..Len(seq)}

\* the metadata block of the encoded document
Block == Frontmatter(codec.content)

\* title, url, remote id and collection title read back are those supplied
FieldsRecovered ==
  /\ Plain(codec.b.title) => FieldOf(Block, TitleKey) = codec.b.title
  /\ Plain(codec.b.link) => FieldOf(Block, UrlKey) = codec.b.link
  /\ codec.read.id = codec.b.id
  /\ Plain(codec.collectionTitle) => FieldOf(Block, CollectionKey) = codec.collectionTitle

C24_NameFreeOrOwn ==
  lastOp.op = "resolve" =>
    \/ lastOp.target \notin DOMAIN files
    \/ RaindropIdOf(files[lastOp.target].c) = lastOp.id

\* dir is made of the sanitized titles of the chain of collections that ends
\* with c, each the parent of the next, the first with no parent in the map
ChainPath(dir, c) ==
  /\ dir # <<>>
  /\ \E chain \in [1..Len(dir) -> DOMAIN collections] :
       /\ chain[Len(dir)] = c
       /\ collections[chain[1]].parent \notin DOMAIN collections
       /\ \A i \in 1..(Len(dir) - 1) : collections[chain[i + 1]].parent = chain[i]
       /\ \A i \in 1..Len(dir) : dir[i] = SanitizeFileName(collections[chain[i]].title, now)

\* C25: with collection folders on and a collection map without a cycle, a
\* record of a collection in the map is placed at the path of the sanitized
\* titles of the collection's chain of ancestors, the outermost first; a record
\* with no collection or one the map does not hold is placed in Unsorted; with
\* collection folders off every record is placed in the resource folder.
C25_TargetFolder ==
  lastOp.op = "folder" =>
    LET co == bookmarks[1].coll
        dir == lastOp.target.dir
    IN IF ~settings.useCollectionFolders THEN dir = Root
       ELSE IF co = 0 \/ co \notin DOMAIN collections THEN dir = <<Unsorted>>
       ELSE ChainPath(dir, co)

\* folder g holds a document, directly or in a folder below it
HoldsDocument(fs, g) ==
  \E p \in DOMAIN fs : Len(p.dir) >= Len(g) /\ SubSeq(p.dir, 1, Len(g)) = g

\* C26: after cleanupEmptyFolders on the resource folder, no folder below it is
\* empty, also not one whose subfolders were all removed; the resource folder
\* is still there, and no folder that holds a document, directly or in a
\* folder below it, was removed.
C26_EmptyFolderCleanup ==
  lastOp.op = "cleanupFolders" =>
    /\ \A g \in folders \ {Root} : ~IsEmptyFolder(folders, files, g)
    /\ Root \in folders
    /\ \A g \in lastOp.removed : ~HoldsDocument(files, g)
    /\ \A g \in folders \ {Root} : HoldsDocument(files, g)

C26_Witness ==
  /\ lastOp.op = "cleanupFolders"
  /\ {<<<<"A">>, <<"A">>>>, <<<<"A">>, <<"A">>, <<"A">>>>, <<<<"B">>>>, <<<<"B">>, <<"A">>>>}
       \subseteq lastOp.removed
  /\ folders = {Root, <<<<"A">>>>, <<<<"A">>, <<"B">>>>}
  /\ DOMAIN files = {[dir |-> <<<<"A">>, <<"B">>>>, name |-> <<"x">>]}

\* the documents that are no bookmark documents: no metadata block, or none
\* with a remote id
NotBookmark(fs) == {p \in DOMAIN fs : RaindropIdOf(fs[p].c) = 0}

\* a step of the reverse pass, the forward pass or the orphan cleanup leaves
\* every such document as it is, pushes none, and does not fail on one
OthersUntouched ==
  lastOp'.op \in {"reverse", "forward", "cleanup"} =>
    /\ \A p \in NotBookmark(files) :
         /\ p \in DOMAIN files'
         /\ files'[p] = files[p]
         /\ p \notin lastOp'.requests
    /\ lastOp'.fault = "none" => lastOp'.result # "failed"

\* C27: the documents under the resource folder that have no metadata block or
\* no remote id, the status document among them, are not modified, deleted or
\* pushed by the reverse pass, the forward pass or the orphan cleanup, and
\* meeting one makes no step fail.
C27_OthersUntouched == [][OthersUntouched]_vars

\* the document carries the bookmark type marker in its metadata block
HoldsMarker(f) == f.c.fm /\ f.c.marker = BookmarkMarker

\* the folders below the resource folder that hold nothing
EmptyBelowRoot(flds, fs) ==
  {g \in flds \ {Root} :
     /\ ~\E p \in DOMAIN fs : p.dir = g
     /\ ~\E h \in flds : Len(h) = Len(g) + 1 /\ SubSeq(h, 1, Len(g)) = g}

\* what the command leaves: the documents without the marker, as they were,
\* no empty folder, and no last-sync time
UndoDone ==
  /\ DOMAIN files' = {p \in DOMAIN files : ~HoldsMarker(files[p])}
  /\ \A p \in DOMAIN files' : files'[p] = files[p]
  /\ folders' \subseteq folders
  /\ \A g \in folders \ folders' : ~\E p \in DOMAIN files' : p.dir = g
  /\ EmptyBelowRoot(folders', files') = {}
  /\ lastSyncTime' = NoTime

\* a run of the undo command in which no read, delete or folder removal fails
UndoStep == lastOp'.op = "undo" /\ lastOp'.fault = "none"

\* C29 as stated: the undo command deletes every document under the resource
\* folder whose metadata block holds the bookmark type marker and no other
\* document, removes the empty folders and resets the last-sync time to none
\* (where no read, delete or folder removal fails).
C29_UndoAll == [][UndoStep => UndoDone]_vars

\* C29, amended: the same where the resource folder exists; where it does not,
\* the command changes nothing, the last-sync time included.
C29_UndoAllUnderFolder ==
  [][UndoStep =>
       IF Root \in folders THEN UndoDone
       ELSE UNCHANGED <<files, folders, lastSyncTime>>]_vars

\* the undo command has deleted a bookmark document and a folder it left
\* empty, and has kept the status document and a document of the user
C29_Witness ==
  /\ lastOp.op = "undo"
  /\ lastOp.fault = "none"
  /\ lastOp.result = "deleted"
  /\ lastOp.removed # {}
  /\ lastSyncTime = NoTime
  /\ StatusPath \in DOMAIN files
  /\ PlainPath \in DOMAIN files
  /\ \E i \in 1..Len(log) : log[i].op = "forward" /\ log[i].result = "created"
  /\ ~\E p \in DOMAIN files : HoldsMarker(files[p])

\* the documents a scan acts on: those the reverse pass pushes, those that
\* carry the remote id looked up, those the cleanup deletes, those the undo
\* command deletes
ToPush(fs) == {q \in DOMAIN fs : NeedsPush(fs[q])}
Carrying(fs, id) == {q \in DOMAIN fs : fs[q].c.fm /\ fs[q].c.id = id}
Orphaned(fs) ==
  {q \in DOMAIN fs : fs[q].c.fm /\ fs[q].c.id # 0 /\ fs[q].c.id \notin SyncedRaindropIds}
Marked(fs) == {q \in DOMAIN fs : HoldsMarker(fs[q])}

\* a scan that met a document it could not read has passed over that one
\* document p, has acted on every other document as it does without the
\* failure, and the run has gone on
ScanGoesOn ==
  lastOp'.fault = "read" =>
    /\ lastOp'.op = "reverse" =>
         /\ \E p \in ToPush(files) : lastOp'.requests = ToPush(files) \ {p}
         /\ pc' \in {"collections", "bookmarks"}
    /\ lastOp'.op = "forward" =>
         /\ \E p \in DOMAIN files :
              lastOp'.found \in (IF Carrying(files, lastOp'.id) \ {p} = {}
                                   THEN {NoFile}
                                   ELSE Carrying(files, lastOp'.id) \ {p})
         /\ lastOp'.result # "failed"
         /\ pc' \in {"forward", "cleanup"}
    /\ lastOp'.op = "cleanup" =>
         /\ \E p \in Orphaned(files) :
              DOMAIN files' = DOMAIN files \ (Orphaned(files) \ {p})
         /\ pc' = "status"
    /\ lastOp'.op = "undo" =>
         /\ \E p \in Marked(files) : DOMAIN files' = DOMAIN files \ (Marked(files) \ {p})
         /\ lastSyncTime' = NoTime
         /\ pc' = pc

\* C28: a document that cannot be read, or that is gone when its turn comes,
\* is passed over by the scan of the reverse pass, of the lookup by remote id,
\* of the orphan cleanup and of the undo command; the scan goes on to every
\* other document, and neither the scan nor the pass is aborted.
C28_ScanTolerance == [][ScanGoesOn]_vars

\* the cleanup could not read one orphaned document and has deleted another
C28_Witness ==
  /\ lastOp.op = "cleanup"
  /\ lastOp.fault = "read"
  /\ \E p \in Orphaned(files) : p \in DOMAIN before
  /\ \E q \in DOMAIN before \ DOMAIN files : before[q].c.id \notin SyncedRaindropIds

\* the pauses made so far are the gaps between the requests sent so far: one
\* after every request but the last, and one more once the next request is due
Paced ==
  fetch.pc # "off" =>
    fetch.delays = (IF fetch.pc = "request" THEN Len(fetch.requests)
                                            ELSE Len(fetch.requests) - 1)

\* a request that is not the first is sent after as many pauses as requests
\* before it, and no pause follows the request that ended the fetch
PacedStep ==
  /\ (Len(fetch'.requests) > Len(fetch.requests) /\ Len(fetch.requests) > 0)
       => fetch.delays = Len(fetch.requests)
  /\ (fetch.pc \in {"returned", "failed"}) => fetch'.delays = fetch.delays

\* C30: between any two consecutive page requests of the record fetch a delay
\* step occurs, and no delay occurs after the last page request.
C30_Pacing == []Paced /\ [][PacedStep]_vars

\* a fetch of three pages has returned after two pauses
C30_Witness ==
  /\ fetch.pc = "returned"
  /\ Len(fetch.requests) = 3
  /\ fetch.delays = 2

\* the number a line of the status document shows for a key, 0 when the
\* document has no line for it
ReadStat(text, key) ==
  IF KeyPos(text, key) = 0 THEN 0
  ELSE ParseInt(LeadingDigits(TrimLeft(SubSeq(text, KeyPos(text, key) + 2, Len(text)))))

\* how often a key stands in the document
Occurrences(text, key) == Cardinality({k \in 1..Len(text) : text[k] = key})

\* the records of the running pass that createOrUpdateNote ended with a result
Ended(result) ==
  Cardinality({i \in 1..Len(log) : log[i].op = "forward" /\ log[i].result = result})

\* the status document shows the totals of the pass that has just ended, each
\* once
ShowsThisPass(text) ==
  /\ ReadStat(text, TotalKey) = Len(bookmarks)
  /\ ReadStat(text, CreatedKey) = Ended("created")
  /\ ReadStat(text, UpdatedKey) = Ended("updated")
  /\ ReadStat(text, SkippedKey) = Ended("skipped")
  /\ ReadStat(text, FailedKey) = Ended("failed")
  /\ \A key \in {TotalKey, CreatedKey, UpdatedKey, SkippedKey} : Occurrences(text, key) = 1
  /\ Occurrences(text, FailedKey) <= 1

StatusStep ==
  lastOp'.op = "status" =>
    /\ pc' = "done"
    /\ lastSyncTime' = now
    /\ IF lastOp'.fault = "none"
         THEN /\ StatusPath \in DOMAIN files'
              /\ ShowsThisPass(files'[StatusPath].c.notes)
         ELSE files' = files

\* C31: every completed pass replaces the whole status document by the totals
\* of that pass (total, created, updated, skipped, failed), which never hold
\* counts of earlier passes, and a failure to write it does not fail the pass.
C31_StatusDocument == [][StatusStep]_vars

\* a second pass that created nothing has replaced the status document of the
\* first, which had created the documents
C31_Witness ==
  /\ pc = "done"
  /\ passes = 2
  /\ lastOp.op = "status"
  /\ lastOp.fault = "none"
  /\ ReadStat(files[StatusPath].c.notes, CreatedKey) = 0
  /\ ReadStat(files[StatusPath].c.notes, TotalKey) >= 1
  /\ StatusPath \in DOMAIN before
  /\ ReadStat(before[StatusPath].c.notes, CreatedKey) >= 1

\* C32: a document written by the forward pass or pushed by the reverse pass
\* is not pushed by the reverse pass of a later pass unless the user edited it
\* in between: where neither the user nor the service has changed anything
\* since the start, the second of two passes sends no update request.
C32_ReverseConverges ==
  (lastOp.op = "reverse" /\ passes = 2 /\ envOps = MaxEnvOps) => lastOp.requests = {}

\* the one change of the behaviour so far was made by the service
OnlyTheService == envOps = MaxEnvOps - 1 /\ \E id \in Ids : remote[id].note = NewNote

\* the record the step of the forward pass is about
Current == bookmarks[idx + 1]

\* a record fetched with the new annotation has it in its document after its
\* step of the forward pass, and the reverse pass before it leaves the new
\* annotation with the service
NewNoteArrives ==
  /\ (lastOp'.op = "forward" /\ lastOp'.result # "failed" /\ Current.note = NewNote)
       => /\ lastOp'.target \in DOMAIN files'
          /\ files'[lastOp'.target].c.id = Current.id
          /\ Trim(DropNewlines(files'[lastOp'.target].c.notes)) = NewNote
  /\ (lastOp'.op \in {"reverse", "start"} /\ OnlyTheService)
       => \A id \in Ids : remote[id].note = NewNote => remote'[id].note = NewNote

\* C33: where the annotation of a record has changed at the service and the
\* user has not edited the record's document since it was last written, the
\* annotation section of the document is the new annotation after the next
\* forward pass.
C33_RemoteNotePropagates == [][NewNoteArrives]_vars

\* the annotation section of a document, without the blanks around it
AnnotationOf(f) == Trim(DropNewlines(f.c.notes))

\* the pass has ended and createOrUpdateNote threw for none of its records
PassDoneNoFailure ==
  /\ pc = "done"
  /\ lastOp.op = "status"
  /\ \A i \in 1..Len(log) : log[i].fault = "none" /\ log[i].result # "failed"

\* C34: after a completed pass with bidirectional sync on and no failure for
\* any record, every fetched record has a document whose annotation section is
\* the annotation the service holds for the record.
C34_TwoSidedConvergence ==
  (PassDoneNoFailure /\ settings.bidirectionalSync) =>
    \A i \in 1..Len(bookmarks) :
      \E p \in DOMAIN files :
        /\ files[p].c.fm
        /\ files[p].c.id = bookmarks[i].id
        /\ AnnotationOf(files[p]) = remote[bookmarks[i].id].note

\* the documents that carry the remote id
DocumentsOf(fs, id) == {p \in DOMAIN fs : fs[p].c.fm /\ fs[p].c.id = id}

\* a record whose step of the forward pass fails keeps a document if it had
\* one, and the cleanup of the pass removes no document of a fetched record
FailureKeepsDocument ==
  /\ (lastOp'.op = "forward" /\ lastOp'.result = "failed"
        /\ DocumentsOf(files, Current.id) # {})
       => DocumentsOf(files', Current.id) # {}
  /\ lastOp'.op = "cleanup"
       => \A i \in 1..Len(bookmarks) :
            DocumentsOf(files, bookmarks[i].id) \subseteq DOMAIN files'

\* C35: when the processing of a record fails at any step of the forward
\* pass, a failed create or write after the relocation step included, the
\* document the record had before still exists after the pass, at its old or
\* its new path, and the orphan cleanup of the pass does not remove it.
C35_FailureKeepsDocument == [][FailureKeepsDocument]_vars

====
